---- MODULE Spec2Model ----
(***************************************************************************)
(* Pseudo-random generators, middle-digit extraction and chi-square tests  *)
(* of generadoresPseudoAleatorios (src/src/prng), as call-level state      *)
(* machines.  A call validates its arguments, runs its loop one iteration  *)
(* per step and returns a list or raises ValueError.                       *)
(*                                                                         *)
(* Rational numbers (probabilities, normalised values, statistics) are     *)
(* pairs <<numerator, denominator>>; the Python code computes them as      *)
(* floats.                                                                 *)
(***************************************************************************)
EXTENDS Integers, Sequences, FiniteSets, TLC

VARIABLES
    pc,        \* "idle" | "loop" | "done" | "error": position of the current call
    fn,        \* the function being executed ("none" before any call)
    args,      \* the arguments of the call, a record
    sequence,  \* local list `sequence` (`series` in mid_square.py)
    xn,        \* local `xn` (`x1` in mid_square.py, unused by fibonacci.py)
    iter,      \* iterations of the `for _ in range(n)` loop completed
    result,    \* what the call gave back: nothing yet, a value, or an exception
    chi,       \* locals of the chi-square functions (chi_square.py)
    self,      \* the distribution object a method runs on (distributions.py)
    loc,       \* locals of the running distribution method
    caller,    \* frame of the function that called the running one
    valoresArchivo,  \* module global of mainCasoBarUcp.py: the texts read from the file
    indiceArchivo    \* module global of mainCasoBarUcp.py: the next text to take

vars == <<pc, fn, args, sequence, xn, iter, result, chi, self, loc, caller,
          valoresArchivo, indiceArchivo>>

----------------------------------------------------------------------------
(* Bounds of the model *)

MaxSeed == 7     \* seeds, multipliers and additive constants range over -1..MaxSeed
MaxMod == 16     \* moduli range over 0..MaxMod
MaxN == 5        \* requested counts n range over 0..MaxN

ParamRange == (0 - 1)..MaxSeed
ModRange == 0..MaxMod
CountRange == 0..MaxN

MaxD == 3        \* digit counts d range over 0..MaxD
MaxX1 == 120     \* mid-square seeds x1 range over -MaxX1..MaxX1
MaxSquared == 1250  \* direct extract_middle_digits calls take -MaxSquared..MaxSquared

DigitRange == 0..MaxD
SeedRange == (0 - MaxX1)..MaxX1
SquaredRange == (0 - MaxSquared)..MaxSquared

MaxK == 4        \* interval counts k range over 0..MaxK and the default
MaxLen == 3      \* normalised sequences have at most MaxLen values
GridDen == 4     \* normalised values are j/GridDen, j in 0..GridDen
MaxObs == 8      \* observed-value lists have at most MaxObs labels
ProbDen == 3     \* theoretical probabilities are j/ProbDen, j in 0..ProbDen

----------------------------------------------------------------------------
(* Python helpers *)

\* max(...) of a non-empty collection
PyMax(S) == CHOOSE x \in S : \A y \in S : y <= x

\* seq[k:] for k >= 0
SliceFrom(seq, k) == IF Len(seq) <= k THEN <<>> ELSE SubSeq(seq, k + 1, Len(seq))

NoResult == [kind |-> "none"]
Return(v) == [kind |-> "return", value |-> v]
Raise(msg) == [kind |-> "raise", exc |-> "ValueError", msg |-> msg]
\* ZeroDivisionError with the interpreter's text: "division by zero" for a
\* division of integers, "float division by zero" for one of floats
RaiseZeroDivision(msg) == [kind |-> "raise", exc |-> "ZeroDivisionError", msg |-> msg]

NoChi == [mode |-> "none"]
NoSelf == [class |-> "none"]
NoLocals == [result |-> <<>>, raw |-> <<>>, x |-> 0, cdf |-> <<0, 1>>]
NoCaller == [fn |-> "none"]

----------------------------------------------------------------------------
(* prng/congruential_mixed.py (and its copy mixed_congruential.py) *)

MixedPositive(x0, a, c) == \A x \in {x0, a, c} : x > 0
MixedModulusNotStrict(x0, a, c, m) == m >= PyMax({x0, a, c})
MixedModulusOk(x0, a, c, m) == m > PyMax({x0, a, c})
MixedNextNoIncrement(a, x, c, m) == (a * x) % m
MixedNext(a, x, c, m) == (a * x + c) % m
MixedResult(seq) == seq

\* the call generate_sequence(n, x0, a, c, m): argument validation and the statements before the loop
EnterMixed(n, x0, a, c, m) ==
    /\ fn' = "mixed"
    /\ args' = [n |-> n, x0 |-> x0, a |-> a, c |-> c, m |-> m]
    /\ iter' = 0
    /\ IF ~MixedPositive(x0, a, c)
       THEN /\ pc' = "error"
            /\ result' = Raise("x0, a, and c must be positive numbers")
            /\ UNCHANGED <<sequence, xn>>
       ELSE IF ~MixedModulusOk(x0, a, c, m)
       THEN /\ pc' = "error"
            /\ result' = Raise("m must be greater than x0, a, and c")
            /\ UNCHANGED <<sequence, xn>>
       ELSE /\ pc' = "loop"
            /\ sequence' = <<x0>>
            /\ xn' = x0
            /\ UNCHANGED result

CallMixed ==
    /\ pc = "idle"
    /\ \E n \in CountRange, x0 \in ParamRange, a \in ParamRange,
          c \in ParamRange, m \in ModRange :
        EnterMixed(n, x0, a, c, m)
    /\ UNCHANGED <<chi, self, loc, caller>>
    /\ UNCHANGED <<valoresArchivo, indiceArchivo>>

StepMixed ==
    /\ pc = "loop" /\ fn = "mixed" /\ iter < args.n
    /\ xn' = MixedNext(args.a, xn, args.c, args.m)
    /\ sequence' = Append(sequence, xn')
    /\ iter' = iter + 1
    /\ UNCHANGED <<pc, fn, args, result, chi, self, loc, caller>>
    /\ UNCHANGED <<valoresArchivo, indiceArchivo>>

ReturnMixed ==
    /\ pc = "loop" /\ fn = "mixed" /\ iter >= args.n
    /\ pc' = "done"
    /\ result' = Return(MixedResult(sequence))
    /\ UNCHANGED <<fn, args, sequence, xn, iter, chi, self, loc, caller>>
    /\ UNCHANGED <<valoresArchivo, indiceArchivo>>

----------------------------------------------------------------------------
(* prng/congruential_additive.py *)

AdditivePositive(x0, c) == \A x \in {x0, c} : x > 0
AdditiveModulusOk(x0, c, m) == m > PyMax({x0, c})
AdditiveNext(x, c, m) == (x + c) % m
AdditiveResultWithSeed(seq) == seq
AdditiveResult(seq) == SliceFrom(seq, 1)

\* the call generate_sequence(n, x0, c, m): argument validation and the statements before the loop
EnterAdditive(n, x0, c, m) ==
    /\ fn' = "additive"
    /\ args' = [n |-> n, x0 |-> x0, c |-> c, m |-> m]
    /\ iter' = 0
    /\ IF ~AdditivePositive(x0, c)
       THEN /\ pc' = "error"
            /\ result' = Raise("x0 and c must be positive numbers")
            /\ UNCHANGED <<sequence, xn>>
       ELSE IF ~AdditiveModulusOk(x0, c, m)
       THEN /\ pc' = "error"
            /\ result' = Raise("m must be greater than x0 and c")
            /\ UNCHANGED <<sequence, xn>>
       ELSE /\ pc' = "loop"
            /\ sequence' = <<x0>>
            /\ xn' = x0
            /\ UNCHANGED result

CallAdditive ==
    /\ pc = "idle"
    /\ \E n \in CountRange, x0 \in ParamRange, c \in ParamRange, m \in ModRange :
        EnterAdditive(n, x0, c, m)
    /\ UNCHANGED <<chi, self, loc, caller>>
    /\ UNCHANGED <<valoresArchivo, indiceArchivo>>

StepAdditive ==
    /\ pc = "loop" /\ fn = "additive" /\ iter < args.n
    /\ xn' = AdditiveNext(xn, args.c, args.m)
    /\ sequence' = Append(sequence, xn')
    /\ iter' = iter + 1
    /\ UNCHANGED <<pc, fn, args, result, chi, self, loc, caller>>
    /\ UNCHANGED <<valoresArchivo, indiceArchivo>>

ReturnAdditive ==
    /\ pc = "loop" /\ fn = "additive" /\ iter >= args.n
    /\ pc' = "done"
    /\ result' = Return(AdditiveResult(sequence))
    /\ UNCHANGED <<fn, args, sequence, xn, iter, chi, self, loc, caller>>
    /\ UNCHANGED <<valoresArchivo, indiceArchivo>>

----------------------------------------------------------------------------
(* prng/congruential_multiplicative.py *)

MultiplicativePositive(x0, a) == \A x \in {x0, a} : x > 0
MultiplicativeModulusOk(x0, a, m) == m > PyMax({x0, a})
MultiplicativeNextWithIncrement(a, x, m) == (a * x + 1) % m
MultiplicativeNext(a, x, m) == (a * x) % m
MultiplicativeResult(seq) == SliceFrom(seq, 1)

EnterMultiplicativeKeepingTerm(n, x0, a, m) ==
    /\ fn' = "multiplicative"
    /\ args' = [n |-> n, x0 |-> x0, a |-> a, m |-> m]
    /\ iter' = 0
    /\ IF ~MultiplicativePositive(x0, a)
       THEN /\ pc' = "error"
            /\ result' = Raise("x0 and a must be positive numbers")
            /\ UNCHANGED <<sequence, xn>>
       ELSE IF ~MultiplicativeModulusOk(x0, a, m)
       THEN /\ pc' = "error"
            /\ result' = Raise("m must be greater than x0 and a")
            /\ UNCHANGED <<sequence, xn>>
       ELSE /\ pc' = "loop"
            /\ sequence' = <<x0>>
            /\ xn' = IF fn = "multiplicative" THEN xn ELSE x0
            /\ UNCHANGED result

\* the call generate_sequence(n, x0, a, m): argument validation and the statements before the loop
EnterMultiplicative(n, x0, a, m) ==
    /\ fn' = "multiplicative"
    /\ args' = [n |-> n, x0 |-> x0, a |-> a, m |-> m]
    /\ iter' = 0
    /\ IF ~MultiplicativePositive(x0, a)
       THEN /\ pc' = "error"
            /\ result' = Raise("x0 and a must be positive numbers")
            /\ UNCHANGED <<sequence, xn>>
       ELSE IF ~MultiplicativeModulusOk(x0, a, m)
       THEN /\ pc' = "error"
            /\ result' = Raise("m must be greater than x0 and a")
            /\ UNCHANGED <<sequence, xn>>
       ELSE /\ pc' = "loop"
            /\ sequence' = <<x0>>
            /\ xn' = x0
            /\ UNCHANGED result

CallMultiplicative ==
    /\ pc = "idle"
    /\ \E n \in CountRange, x0 \in ParamRange, a \in ParamRange, m \in ModRange :
        EnterMultiplicative(n, x0, a, m)
    /\ UNCHANGED <<chi, self, loc, caller>>
    /\ UNCHANGED <<valoresArchivo, indiceArchivo>>

StepMultiplicative ==
    /\ pc = "loop" /\ fn = "multiplicative" /\ iter < args.n
    /\ xn' = MultiplicativeNext(args.a, xn, args.m)
    /\ sequence' = Append(sequence, xn')
    /\ iter' = iter + 1
    /\ UNCHANGED <<pc, fn, args, result, chi, self, loc, caller>>
    /\ UNCHANGED <<valoresArchivo, indiceArchivo>>

ReturnMultiplicative ==
    /\ pc = "loop" /\ fn = "multiplicative" /\ iter >= args.n
    /\ pc' = "done"
    /\ result' = Return(MultiplicativeResult(sequence))
    /\ UNCHANGED <<fn, args, sequence, xn, iter, chi, self, loc, caller>>
    /\ UNCHANGED <<valoresArchivo, indiceArchivo>>

----------------------------------------------------------------------------
(* prng/fibonacci.py *)

FibonacciPositive(x0, x1) == \A x \in {x0, x1} : x > 0
FibonacciModulusNotStrict(x0, x1, m) == m >= PyMax({x0, x1})
FibonacciModulusOk(x0, x1, m) == m > PyMax({x0, x1})
\* (sequence[-1] + sequence[-2]) % m
FibonacciNext(seq, m) == (seq[Len(seq)] + seq[Len(seq) - 1]) % m
FibonacciResultOneSeed(seq) == SliceFrom(seq, 1)
FibonacciResult(seq) == SliceFrom(seq, 2)

\* the call generate_sequence(n, x0, x1, m): argument validation and the statements before the loop
EnterFibonacci(n, x0, x1, m) ==
    /\ fn' = "fibonacci"
    /\ args' = [n |-> n, x0 |-> x0, x1 |-> x1, m |-> m]
    /\ iter' = 0
    /\ IF ~FibonacciPositive(x0, x1)
       THEN /\ pc' = "error"
            /\ result' = Raise("x0 and x1 must be positive numbers")
            /\ UNCHANGED <<sequence, xn>>
       ELSE IF ~FibonacciModulusOk(x0, x1, m)
       THEN /\ pc' = "error"
            /\ result' = Raise("m must be greater than x0 and x1")
            /\ UNCHANGED <<sequence, xn>>
       ELSE /\ pc' = "loop"
            /\ sequence' = <<x0, x1>>
            /\ UNCHANGED <<xn, result>>

CallFibonacci ==
    /\ pc = "idle"
    /\ \E n \in CountRange, x0 \in ParamRange, x1 \in ParamRange, m \in ModRange :
        EnterFibonacci(n, x0, x1, m)
    /\ UNCHANGED <<chi, self, loc, caller>>
    /\ UNCHANGED <<valoresArchivo, indiceArchivo>>

StepFibonacci ==
    /\ pc = "loop" /\ fn = "fibonacci" /\ iter < args.n
    /\ sequence' = Append(sequence, FibonacciNext(sequence, args.m))
    /\ iter' = iter + 1
    /\ UNCHANGED <<pc, fn, args, xn, result, chi, self, loc, caller>>
    /\ UNCHANGED <<valoresArchivo, indiceArchivo>>

ReturnFibonacci ==
    /\ pc = "loop" /\ fn = "fibonacci" /\ iter >= args.n
    /\ pc' = "done"
    /\ result' = Return(FibonacciResult(sequence))
    /\ UNCHANGED <<fn, args, sequence, xn, iter, chi, self, loc, caller>>
    /\ UNCHANGED <<valoresArchivo, indiceArchivo>>

----------------------------------------------------------------------------
(* The congruential and Fibonacci generators: any one call from idle *)

Init ==
    /\ pc = "idle"
    /\ fn = "none"
    /\ args = [n |-> 0]
    /\ sequence = <<>>
    /\ xn = 0
    /\ iter = 0
    /\ result = NoResult
    /\ chi = NoChi
    /\ self = NoSelf
    /\ loc = NoLocals
    /\ caller = NoCaller
    /\ valoresArchivo = <<>>
    /\ indiceArchivo = 0

Next ==
    \/ CallMixed \/ StepMixed \/ ReturnMixed
    \/ CallAdditive \/ StepAdditive \/ ReturnAdditive
    \/ CallMultiplicative \/ StepMultiplicative \/ ReturnMultiplicative
    \/ CallFibonacci \/ StepFibonacci \/ ReturnFibonacci

Spec == Init /\ [][Next]_vars

----------------------------------------------------------------------------
(* Python str() and int() on integers; a string is a sequence of characters *)

DigitChar == <<"0", "1", "2", "3", "4", "5", "6", "7", "8", "9">>
IsDigit(ch) == \E k \in 1..10 : DigitChar[k] = ch
DigitValue(ch) == (CHOOSE k \in 1..10 : DigitChar[k] = ch) - 1

RECURSIVE NatStr(_)
NatStr(v) == IF v < 10 THEN <<DigitChar[v + 1]>>
             ELSE Append(NatStr(v \div 10), DigitChar[(v % 10) + 1])

\* str(v)
PyStr(v) == IF v < 0 THEN <<"-">> \o NatStr(0 - v) ELSE NatStr(v)

RECURSIVE DigitsValue(_)
DigitsValue(s) == IF s = <<>> THEN 0
                  ELSE 10 * DigitsValue(SubSeq(s, 1, Len(s) - 1)) + DigitValue(s[Len(s)])

AllDigits(s) == s # <<>> /\ \A k \in 1..Len(s) : IsDigit(s[k])

\* int(s): the number, or ValueError for the empty string and for a sign
\* that is not followed by digits only
PyInt(s) ==
    IF AllDigits(s) THEN Return(DigitsValue(s))
    ELSE IF s # <<>> /\ s[1] = "-" /\ AllDigits(Tail(s))
    THEN Return(0 - DigitsValue(Tail(s)))
    ELSE Raise("invalid literal for int() with base 10")

\* s[lo:hi] for 0 <= lo <= hi
Slice(s, lo, hi) == SubSeq(s, lo + 1, IF hi > Len(s) THEN Len(s) ELSE hi)

----------------------------------------------------------------------------
(* prng/mid_square.py *)

PaddedStrNoPadding(squared, d) == PyStr(squared)

\* squared_str after the parity padding
PaddedStr(squared, d) ==
    LET squared_str == PyStr(squared)
    IN  IF (Len(squared_str) % 2) # (d % 2) THEN <<"0">> \o squared_str
        ELSE squared_str

MiddleStart(squared_str, d) == (Len(squared_str) - d) \div 2

extract_middle_digits_lenient(squared, d) ==
    LET squared_str == PaddedStr(squared, d)
        middle_start == MiddleStart(squared_str, d)
    IN  IF Len(squared_str) < d
        THEN Return(squared)
        ELSE PyInt(Slice(squared_str, middle_start, middle_start + d))

extract_middle_digits(squared, d) ==
    LET squared_str == PaddedStr(squared, d)
        middle_start == MiddleStart(squared_str, d)
    IN  IF Len(squared_str) < d
        THEN Raise("Squared number has fewer digits than required")
        ELSE PyInt(Slice(squared_str, middle_start, middle_start + d))

\* len(str(x1)) != d
SeedDigitsOk(x1, d) == Len(PyStr(x1)) = d

MidSquareResult(series) == SliceFrom(series, 2)

CallExtract ==
    /\ pc = "idle"
    /\ \E squared \in SquaredRange, d \in DigitRange :
        /\ fn' = "extract_middle_digits"
        /\ args' = [squared |-> squared, d |-> d]
        /\ result' = extract_middle_digits(squared, d)
        /\ pc' = IF result'.kind = "raise" THEN "error" ELSE "done"
    /\ UNCHANGED <<sequence, xn, iter, chi, self, loc, caller>>
    /\ UNCHANGED <<valoresArchivo, indiceArchivo>>

\* the call generate_sequence(n, d, x1): argument validation and the statements before the loop
EnterMidSquare(n, d, x1) ==
    /\ fn' = "mid_square"
    /\ args' = [n |-> n, d |-> d, x1 |-> x1]
    /\ iter' = 0
    /\ IF ~SeedDigitsOk(x1, d)
       THEN /\ pc' = "error"
            /\ result' = Raise("Initial number x1 must have exactly d digits")
            /\ UNCHANGED <<sequence, xn>>
       ELSE /\ pc' = "loop"
            /\ sequence' = <<x1>>
            /\ xn' = x1
            /\ UNCHANGED result

CallMidSquare ==
    /\ pc = "idle"
    /\ \E n \in CountRange, d \in DigitRange, x1 \in SeedRange :
        EnterMidSquare(n, d, x1)
    /\ UNCHANGED <<chi, self, loc, caller>>
    /\ UNCHANGED <<valoresArchivo, indiceArchivo>>

\* one iteration: squared = x1 * x1; x2 = extract_middle_digits(squared, d);
\* series.append(x2); x1 = x2.  An exception of extract_middle_digits leaves
\* the loop and the function.
StepMidSquare ==
    /\ pc = "loop" /\ fn = "mid_square" /\ iter < args.n
    /\ LET squared == xn * xn
           x2 == extract_middle_digits(squared, args.d)
       IN  IF x2.kind = "raise"
           THEN /\ pc' = "error"
                /\ result' = x2
                /\ UNCHANGED <<sequence, xn, iter>>
           ELSE /\ sequence' = Append(sequence, x2.value)
                /\ xn' = x2.value
                /\ iter' = iter + 1
                /\ UNCHANGED <<pc, result>>
    /\ UNCHANGED <<fn, args, chi, self, loc, caller>>
    /\ UNCHANGED <<valoresArchivo, indiceArchivo>>

ReturnMidSquare ==
    /\ pc = "loop" /\ fn = "mid_square" /\ iter >= args.n
    /\ pc' = "done"
    /\ result' = Return(MidSquareResult(sequence))
    /\ UNCHANGED <<fn, args, sequence, xn, iter, chi, self, loc, caller>>
    /\ UNCHANGED <<valoresArchivo, indiceArchivo>>

NextMidSquare ==
    \/ CallExtract
    \/ CallMidSquare \/ StepMidSquare \/ ReturnMidSquare

SpecMidSquare == Init /\ [][NextMidSquare]_vars

----------------------------------------------------------------------------
(* Exact rationals <<numerator, denominator>>, denominator > 0, in lowest  *)
(* terms, for the quantities the code holds in floats                      *)

GCD(a, b) ==
    LET gcd[p \in Nat \X Nat] == IF p[2] = 0 THEN p[1] ELSE gcd[<<p[2], p[1] % p[2]>>]
    IN  gcd[<<a, b>>]

Rat(num, den) ==
    LET reduce[p \in Int \X Int] ==
            LET sgn == IF p[2] < 0 THEN 0 - 1 ELSE 1
                g == GCD(IF p[1] < 0 THEN 0 - p[1] ELSE p[1],
                         IF p[2] < 0 THEN 0 - p[2] ELSE p[2])
            IN  <<(sgn * p[1]) \div g, (sgn * p[2]) \div g>>
    IN  reduce[<<num, den>>]

RatAdd(p, q) == LET g == GCD(p[2], q[2])
               IN  Rat(p[1] * (q[2] \div g) + q[1] * (p[2] \div g), (p[2] \div g) * q[2])
RatSub(p, q) == LET g == GCD(p[2], q[2])
               IN  Rat(p[1] * (q[2] \div g) - q[1] * (p[2] \div g), (p[2] \div g) * q[2])
RatMul(p, q) == Rat(p[1] * q[1], p[2] * q[2])
RatDiv(p, q) == Rat(p[1] * q[2], p[2] * q[1])
RatLess(p, q) == LET g == GCD(p[2], q[2])
                 IN  p[1] * (q[2] \div g) < q[1] * (p[2] \div g)
RatIsZero(p) == p[1] = 0
\* int(x) for x >= 0
RatFloor(p) == p[1] \div p[2]

\* (obs - exp) ** 2 / exp
ChiTerm(obs, exp) ==
    LET diff == RatSub(Rat(obs, 1), exp) IN RatDiv(RatMul(diff, diff), exp)

RECURSIVE SumSeq(_)
SumSeq(terms) == IF terms = <<>> THEN Rat(0, 1)
                 ELSE RatAdd(SumSeq(SubSeq(terms, 1, Len(terms) - 1)), terms[Len(terms)])

RECURSIVE SumOver(_, _)
\* the sum of term[x] over x in S
SumOver(S, term) == IF S = {} THEN Rat(0, 1)
                    ELSE LET x == CHOOSE y \in S : TRUE
                         IN  RatAdd(SumOver(S \ {x}, term), term[x])

----------------------------------------------------------------------------
(* prng/chi_square.py: chi_square_test_uniform *)

DefaultK == 10

IntervalNoClamp(num, k) == RatFloor(RatMul(num, Rat(k, 1)))

\* interval = int(num * k); if interval == k: interval = k - 1
Interval(num, k) ==
    LET interval == RatFloor(RatMul(num, Rat(k, 1)))
    IN  IF interval = k THEN k - 1 ELSE interval

\* sum((obs - expected_frequency) ** 2 / expected_frequency for obs in ...)
UniformStatistic(observed_frequencies, expected_frequency) ==
    SumSeq([b \in 1..Len(observed_frequencies) |->
                ChiTerm(observed_frequencies[b], expected_frequency)])

UniformDegreesOfFreedom(k) == k - 1

UnitGrid == {Rat(j, GridDen) : j \in 0..GridDen}

\* 0.05, 0.15, ..., 0.95
TwentiethsSequence == [i \in 1..10 |-> Rat(2 * i - 1, 20)]

RECURSIVE SeqsUpTo(_, _)
SeqsUpTo(S, len) ==
    IF len = 0 THEN {<<>>}
    ELSE LET shorter == SeqsUpTo(S, len - 1)
         IN  shorter \cup {Append(q, x) : q \in {r \in shorter : Len(r) = len - 1}, x \in S}

NormalizedSequences == SeqsUpTo(UnitGrid, MaxLen) \cup {TwentiethsSequence}
IntervalCounts == (0..MaxK) \cup {DefaultK}

CallChiUniform ==
    /\ pc = "idle"
    /\ \E normalized_sequence \in NormalizedSequences, k \in IntervalCounts :
        /\ fn' = "chi_square_test_uniform"
        /\ args' = [normalized_sequence |-> normalized_sequence, k |-> k]
        /\ iter' = 0
        /\ IF k = 0
           THEN /\ pc' = "error"
                /\ result' = RaiseZeroDivision("division by zero")
                /\ chi' = [mode |-> "uniform", n |-> Len(normalized_sequence)]
           ELSE /\ pc' = "loop"
                /\ chi' = [mode |-> "uniform",
                           n |-> Len(normalized_sequence),
                           expected_frequency |-> Rat(Len(normalized_sequence), k),
                           observed_frequencies |-> [b \in 1..k |-> 0]]
                /\ UNCHANGED result
    /\ UNCHANGED <<sequence, xn, self, loc, caller>>
    /\ UNCHANGED <<valoresArchivo, indiceArchivo>>

\* one iteration of `for num in normalized_sequence`; bin b of the code is
\* position b + 1 of observed_frequencies here
StepChiUniform ==
    /\ pc = "loop" /\ fn = "chi_square_test_uniform" /\ iter < chi.n
    /\ LET num == args.normalized_sequence[iter + 1]
           interval == Interval(num, args.k)
       IN  chi' = [chi EXCEPT !.observed_frequencies[interval + 1] = @ + 1]
    /\ iter' = iter + 1
    /\ UNCHANGED <<pc, fn, args, sequence, xn, result, self, loc, caller>>
    /\ UNCHANGED <<valoresArchivo, indiceArchivo>>

FinishChiUniform ==
    /\ pc = "loop" /\ fn = "chi_square_test_uniform" /\ iter >= chi.n
    /\ IF RatIsZero(chi.expected_frequency)
       THEN /\ pc' = "error"
            /\ result' = RaiseZeroDivision("float division by zero")
       ELSE /\ pc' = "done"
            /\ result' = Return([chi_square |-> UniformStatistic(chi.observed_frequencies,
                                                                 chi.expected_frequency),
                                 degrees_of_freedom |-> UniformDegreesOfFreedom(args.k)])
    /\ UNCHANGED <<fn, args, sequence, xn, iter, chi, self, loc, caller>>
    /\ UNCHANGED <<valoresArchivo, indiceArchivo>>

----------------------------------------------------------------------------
(* prng/chi_square.py: chi_square_test_distribution *)

MinExpected == 5

ObservedLabels == {"A", "B"}
TheoreticalLabels == {"A", "B", "C"}

\* Counter(observed_values): label -> number of occurrences, observed labels only
Counter(values) ==
    [v \in {values[i] : i \in 1..Len(values)} |->
        Cardinality({i \in 1..Len(values) : values[i] = v})]

\* d.get(key, 0)
Get(d, key) == IF key \in DOMAIN d THEN d[key] ELSE 0
GetRat(d, key) == IF key \in DOMAIN d THEN d[key] ELSE Rat(0, 1)

ExpectedFreqs(theoretical_probs, n) ==
    [value \in DOMAIN theoretical_probs |-> RatMul(theoretical_probs[value], Rat(n, 1))]

AllValues(observed_freqs, expected_freqs) == DOMAIN observed_freqs \cup DOMAIN expected_freqs

CountedNoThreshold(all_values, expected_freqs) ==
    {value \in all_values : ~RatIsZero(GetRat(expected_freqs, value))}

\* the categories the loop does not skip: not (exp < 5)
Counted(all_values, expected_freqs) ==
    {value \in all_values : ~RatLess(GetRat(expected_freqs, value), Rat(MinExpected, 1))}

DistributionStatistic(observed_freqs, expected_freqs) ==
    LET counted == Counted(AllValues(observed_freqs, expected_freqs), expected_freqs)
    IN  SumOver(counted,
                [value \in counted |->
                    ChiTerm(Get(observed_freqs, value), GetRat(expected_freqs, value))])

DistributionDegreesOfFreedomCounted(all_values, expected_freqs) ==
    Cardinality(Counted(all_values, expected_freqs)) - 1

DistributionDegreesOfFreedom(all_values, expected_freqs) == Cardinality(all_values) - 1

ObservedLists == SeqsUpTo(ObservedLabels, MaxObs)
Probabilities == {Rat(j, ProbDen) : j \in 0..ProbDen}
TheoreticalMaps == UNION {[D -> Probabilities] : D \in SUBSET TheoreticalLabels}

CallChiDistribution ==
    /\ pc = "idle"
    /\ \E observed_values \in ObservedLists, theoretical_probs \in TheoreticalMaps :
        LET n == Len(observed_values)
            observed_freqs == Counter(observed_values)
            expected_freqs == ExpectedFreqs(theoretical_probs, n)
            all_values == AllValues(observed_freqs, expected_freqs)
        IN  /\ fn' = "chi_square_test_distribution"
            /\ args' = [observed_values |-> observed_values,
                        theoretical_probs |-> theoretical_probs]
            /\ chi' = [mode |-> "distribution", n |-> n,
                       observed_freqs |-> observed_freqs,
                       expected_freqs |-> expected_freqs,
                       all_values |-> all_values]
            /\ result' = Return([chi_square |-> DistributionStatistic(observed_freqs,
                                                                      expected_freqs),
                                 degrees_of_freedom |->
                                     DistributionDegreesOfFreedom(all_values, expected_freqs)])
            /\ pc' = "done"
    /\ UNCHANGED <<sequence, xn, iter, self, loc, caller>>
    /\ UNCHANGED <<valoresArchivo, indiceArchivo>>

NextChi ==
    \/ CallChiUniform \/ StepChiUniform \/ FinishChiUniform
    \/ CallChiDistribution

SpecChi == Init /\ [][NextChi]_vars

----------------------------------------------------------------------------
(* muestrasArtificiales.py: generarDatosNormalizados.  The function picks  *)
(* the generator by parametrosDeGeneracion["nombre"], calls it, divides    *)
(* the terms by the modulus and returns the normalised list.               *)

MaxPipeN == 3      \* pipeline calls request n in 0..MaxPipeN terms
MaxPipeSeed == 4   \* with seeds, multipliers and constants in 0..MaxPipeSeed
MaxPipeMod == 6    \* and moduli in 0..MaxPipeMod
MaxPipeD == 2      \* mid-square digit counts in 1..MaxPipeD
MaxPipeX1 == 25    \* and mid-square seeds in -MaxPipeX1..MaxPipeX1

\* b ** e for e >= 0
RECURSIVE PyPow(_, _)
PyPow(b, e) == IF e = 0 THEN 1 ELSE b * PyPow(b, e - 1)

\* normaliser(sequence, m) of prng/normaliser.py: each element e becomes e / m
normaliser(seq, modulus) == [i \in 1..Len(seq) |-> Rat(seq[i], modulus)]

\* the keys of PRNGSelector.METHODS (gui/prng_selector.py), the names the
\* selector offers
METHODS == {"Von Neumann", "Fibonacci", "Mixed Congruential",
            "Additive Congruential", "Multiplicative Congruential"}

\* names no branch and no selector entry knows
OtherNames == {"Lehmer", "von neumann", ""}

\* the parametrosDeGeneracion dictionaries: a name and the parameters of its
\* generator
MidSquareParams(nombre) ==
    {[nombre |-> nombre, n |-> n, d |-> d, x1 |-> x1] :
        n \in 0..MaxPipeN, d \in 1..MaxPipeD, x1 \in ((0 - MaxPipeX1)..MaxPipeX1)}
FibonacciParams(nombre) ==
    {[nombre |-> nombre, n |-> n, x0 |-> x0, x1 |-> x1, m |-> m] :
        n \in 0..MaxPipeN, x0 \in 0..MaxPipeSeed, x1 \in 0..MaxPipeSeed, m \in 0..MaxPipeMod}
MixedParams(nombre) ==
    {[nombre |-> nombre, n |-> n, x0 |-> x0, a |-> a, c |-> c, m |-> m] :
        n \in 0..MaxPipeN, x0 \in 0..MaxPipeSeed, a \in 0..MaxPipeSeed, c \in 0..MaxPipeSeed,
        m \in 0..MaxPipeMod}
AdditiveParams(nombre) ==
    {[nombre |-> nombre, n |-> n, x0 |-> x0, c |-> c, m |-> m] :
        n \in 0..MaxPipeN, x0 \in 0..MaxPipeSeed, c \in 0..MaxPipeSeed, m \in 0..MaxPipeMod}
MultiplicativeParams(nombre) ==
    {[nombre |-> nombre, n |-> n, x0 |-> x0, a |-> a, m |-> m] :
        n \in 0..MaxPipeN, x0 \in 0..MaxPipeSeed, a \in 0..MaxPipeSeed, m \in 0..MaxPipeMod}

ParametrosDeGeneracion ==
    MidSquareParams("Von Neumann") \cup FibonacciParams("Fibonacci")
    \cup MixedParams("Mixed Congruential") \cup AdditiveParams("Additive Congruential")
    \cup MultiplicativeParams("Congruencial Multiplicativo")
    \cup MultiplicativeParams("Multiplicative Congruential")
    \cup UNION {MultiplicativeParams(nombre) : nombre \in OtherNames}

\* the second argument of normaliser in the branch of the name
NormaliserModulus(p) ==
    IF p.nombre = "Von Neumann" THEN PyPow(10, p.d) ELSE p.m

\* the frame of a running generarDatosNormalizados: `assigned` is
\* "sequence is not None", `result` what the function gave back
Frame(p) == [fn |-> "generarDatosNormalizados", parametrosDeGeneracion |-> p,
             pos |-> "generator", assigned |-> FALSE, sequence |-> <<>>,
             normalized |-> <<>>, result |-> NoResult]

\* the if/elif chain on parametrosDeGeneracion["nombre"]: the call of the
\* generator of the matching branch, or, when no branch matches, sequence
\* stays None and the function raises
CallGenerarDatos ==
    /\ pc = "idle" /\ caller = NoCaller /\ self.class = "none"
    /\ \E p \in ParametrosDeGeneracion :
        IF p.nombre = "Von Neumann"
        THEN EnterMidSquare(p.n, p.d, p.x1) /\ caller' = Frame(p)
        ELSE IF p.nombre = "Fibonacci"
        THEN EnterFibonacci(p.n, p.x0, p.x1, p.m) /\ caller' = Frame(p)
        ELSE IF p.nombre = "Mixed Congruential"
        THEN EnterMixed(p.n, p.x0, p.a, p.c, p.m) /\ caller' = Frame(p)
        ELSE IF p.nombre = "Additive Congruential"
        THEN EnterAdditive(p.n, p.x0, p.c, p.m) /\ caller' = Frame(p)
        ELSE IF p.nombre = "Congruencial Multiplicativo"
        THEN EnterMultiplicative(p.n, p.x0, p.a, p.m) /\ caller' = Frame(p)
        ELSE /\ caller' = [Frame(p) EXCEPT !.pos = "raised",
                                           !.result = Raise("No sequence was generated")]
             /\ UNCHANGED <<pc, fn, args, sequence, xn, iter, result>>
    /\ UNCHANGED <<chi, self, loc>>
    /\ UNCHANGED <<valoresArchivo, indiceArchivo>>

\* the generator returned: sequence = ...; normalized = normaliser(sequence,
\* modulus); return normalized
ReturnNormalized ==
    /\ caller.fn = "generarDatosNormalizados" /\ caller.pos = "generator"
    /\ pc = "done" /\ result.kind = "return"
    /\ LET normalized == normaliser(result.value,
                                    NormaliserModulus(caller.parametrosDeGeneracion))
       IN  caller' = [caller EXCEPT !.pos = "returned", !.assigned = TRUE,
                                    !.sequence = result.value,
                                    !.normalized = normalized,
                                    !.result = Return(normalized)]
    /\ UNCHANGED <<pc, fn, args, sequence, xn, iter, result, chi, self, loc>>
    /\ UNCHANGED <<valoresArchivo, indiceArchivo>>

\* the generator raised: the exception leaves generarDatosNormalizados
PropagateRaise ==
    /\ caller.fn = "generarDatosNormalizados" /\ caller.pos = "generator"
    /\ pc = "error" /\ result.kind = "raise"
    /\ caller' = [caller EXCEPT !.pos = "raised", !.result = result]
    /\ UNCHANGED <<pc, fn, args, sequence, xn, iter, result, chi, self, loc>>
    /\ UNCHANGED <<valoresArchivo, indiceArchivo>>

NextPipeline ==
    \/ CallGenerarDatos
    \/ StepMidSquare \/ ReturnMidSquare
    \/ StepFibonacci \/ ReturnFibonacci
    \/ StepMixed \/ ReturnMixed
    \/ StepAdditive \/ ReturnAdditive
    \/ StepMultiplicative \/ ReturnMultiplicative
    \/ ReturnNormalized \/ PropagateRaise

SpecPipeline == Init /\ [][NextPipeline]_vars

----------------------------------------------------------------------------
(* prng/distributions.py.  A distribution object is a record of its        *)
(* fields; an optional parameter is None or <<value>>.  The densities and  *)
(* mass functions of scipy.stats are floats: binom.pmf is computed exactly *)
(* here, poisson.pmf with exp(-lambda) rounded to three decimals, and the  *)
(* Box-Muller factors are tabulated for the uniforms of the model.         *)

MaxUniforms == 2        \* Table, Binomial and Poisson read at most MaxUniforms uniforms
MaxNormalUniforms == 4  \* Normal reads at most MaxNormalUniforms uniforms
TableDen == 10          \* table probabilities are j/TableDen, j in 0..TableDen
MaxTrials == 3          \* binomial n ranges over 0..MaxTrials
MaxLambdaHalves == 3    \* lambda is j/2, j in -1..MaxLambdaHalves
MaxSigma == 2           \* sigma ranges over 0..MaxSigma
MaxClasses == 3         \* num_classes is None or in 1..MaxClasses

\* params.get(key) of a missing key
None == <<>>

\* int(x): truncation toward zero
RatTrunc(p) == IF p[1] >= 0 THEN p[1] \div p[2] ELSE 0 - ((0 - p[1]) \div p[2])

\* max(x, y) and min(x, y) of two rationals

IsCloseToOneLoose(total) ==
    LET diff == IF total[1] >= total[2] THEN total[1] - total[2] ELSE total[2] - total[1]
    IN  diff * 5 <= total[2]

\* math.isclose(total, 1.0, rel_tol=1e-5): |total - 1| <= 1e-5 * max(|total|, 1)
IsCloseToOne(total) ==
    LET diff == IF total[1] >= total[2] THEN total[1] - total[2] ELSE total[2] - total[1]
        size == IF total[1] >= total[2] THEN total[1]
                ELSE IF 0 - total[1] >= total[2] THEN 0 - total[1] ELSE total[2]
    IN  diff * 100000 <= size

\* TableDistribution.__init__; the dictionary tabla_contingencia is the
\* sequence of its <<key, probability>> items in insertion order
TableDistribution(params) ==
    LET table == params.tabla_contingencia
        values == [i \in 1..Len(table) |-> table[i][1]]
        probabilities == [i \in 1..Len(table) |-> table[i][2]]
    IN  IF ~IsCloseToOne(SumSeq(probabilities))
        THEN Raise("Probabilities must sum to 1")
        ELSE Return([class |-> "TableDistribution", values |-> values,
                     probabilities |-> probabilities])

\* BinomialDistribution.__init__
BinomialDistribution(params) ==
    IF ~(0 <= params.p[1] /\ params.p[1] <= params.p[2])
    THEN Raise("Probability p must be between 0 and 1")
    ELSE IF params.n < 1
    THEN Raise("Number of trials n must be positive")
    ELSE Return([class |-> "BinomialDistribution", n |-> params.n, p |-> params.p])

\* PoissonDistribution.__init__
PoissonDistribution(params) ==
    IF params.lambda[1] <= 0
    THEN Raise("Lambda must be positive")
    ELSE Return([class |-> "PoissonDistribution", lambda_ |-> params.lambda])

\* ExponentialDistribution.__init__
ExponentialDistribution(params) ==
    IF params.lambda[1] <= 0
    THEN Raise("Lambda must be positive")
    ELSE Return([class |-> "ExponentialDistribution", lambda_ |-> params.lambda,
                 discrete_step |-> params.discrete_step,
                 discrete_min |-> params.discrete_min,
                 discrete_max |-> params.discrete_max])

\* NormalDistribution.__init__
NormalDistribution(params) ==
    IF params.sigma[1] <= 0
    THEN Raise("Sigma must be positive")
    ELSE Return([class |-> "NormalDistribution", mu |-> params.mu, sigma |-> params.sigma,
                 num_classes |-> params.num_classes,
                 class_min |-> params.class_min,
                 class_max |-> params.class_max])

create_distribution(params) ==
    IF params.tipo = "tabla" THEN TableDistribution(params)
    ELSE IF params.tipo = "binomial" THEN BinomialDistribution(params)
    ELSE IF params.tipo = "poisson" THEN PoissonDistribution(params)
    ELSE IF params.tipo = "exponencial" THEN ExponentialDistribution(params)
    ELSE IF params.tipo = "normal" THEN NormalDistribution(params)
    ELSE Raise("Unknown distribution type")

\* the probability tables of the model: up to two labels with probabilities
\* j/TableDen, a three-label table, and two tables whose sums 0.999992 and
\* 0.9999 lie inside and outside the tolerance
ProbabilityTables ==
    LET probs == {Rat(j, TableDen) : j \in 0..TableDen}
        labels == {"A", "B"}
    IN  {<<>>}
        \cup {<< <<l, p>> >> : l \in labels, p \in probs}
        \cup UNION {{<< <<l1, p1>>, <<l2, p2>> >> :
                        l2 \in labels \ {l1}, p1 \in probs, p2 \in probs} : l1 \in labels}
        \cup {<< <<"A", Rat(1, 4)>>, <<"B", Rat(1, 4)>>, <<"C", Rat(1, 2)>> >>,
              << <<"A", Rat(1, 2)>>, <<"B", Rat(62499, 125000)>> >>,
              << <<"A", Rat(1, 2)>>, <<"B", Rat(4999, 10000)>> >>}

\* the params dictionaries handed to create_distribution
DistributionParams ==
    {[tipo |-> "tabla", tabla_contingencia |-> t] : t \in ProbabilityTables}
    \cup {[tipo |-> "binomial", n |-> n, p |-> Rat(j, GridDen)] :
            n \in 0..MaxTrials, j \in (0 - 1)..(GridDen + 1)}
    \cup {[tipo |-> "poisson", lambda |-> Rat(j, 2)] : j \in (0 - 1)..MaxLambdaHalves}
    \cup {[tipo |-> "exponencial", lambda |-> Rat(j, 2), discrete_step |-> step,
           discrete_min |-> lo, discrete_max |-> hi] :
            j \in (0 - 1)..MaxLambdaHalves, step \in {None, <<Rat(1, 2)>>},
            lo \in {None, <<Rat(1, 1)>>}, hi \in {None, <<Rat(2, 1)>>}}
    \cup {[tipo |-> "normal", mu |-> Rat(mu, 1), sigma |-> Rat(sigma, 1),
           num_classes |-> num_classes, class_min |-> lo, class_max |-> hi] :
            mu \in 0..1, sigma \in 0..MaxSigma,
            num_classes \in {None} \cup {<<k>> : k \in 1..MaxClasses},
            lo \in {None, <<Rat(0 - 1, 1)>>}, hi \in {None, <<Rat(2, 1)>>}}
    \cup {[tipo |-> tipo] : tipo \in {"uniforme", "Normal", ""}}

\* the random_numbers lists handed to generate: the grid of each class keeps
\* clear of the values where float and exact arithmetic could compare
\* differently
UniformLists(class) ==
    IF class = "TableDistribution"
    THEN SeqsUpTo({Rat(0, 1), Rat(1, 4), Rat(1, 2), Rat(19, 20), Rat(249999, 250000)},
                  MaxUniforms)
    ELSE IF class = "NormalDistribution"
    THEN SeqsUpTo({Rat(0, 1), Rat(1, 4), Rat(1, 2)}, MaxNormalUniforms)
    ELSE SeqsUpTo({Rat(1, 10), Rat(3, 10), Rat(9, 10), Rat(99, 100), Rat(6, 5)},
                  MaxUniforms)

\* create_distribution(params): the object is kept in self
CallCreateDistribution ==
    /\ pc = "idle" /\ self.class = "none" /\ caller = NoCaller
    /\ \E params \in DistributionParams :
        LET made == create_distribution(params)
        IN  /\ fn' = "create_distribution"
            /\ args' = [params |-> params]
            /\ result' = made
            /\ IF made.kind = "raise"
               THEN pc' = "error" /\ UNCHANGED self
               ELSE pc' = "idle" /\ self' = made.value
    /\ UNCHANGED <<sequence, xn, iter, chi, loc, caller>>
    /\ UNCHANGED <<valoresArchivo, indiceArchivo>>

\* self.generate(random_numbers): result = []  (ExponentialDistribution.generate,
\* an inverse CDF through math.log, is not modelled)
CallGenerate ==
    /\ pc = "idle" /\ self.class \notin {"none", "ExponentialDistribution"}
    /\ \E random_numbers \in UniformLists(self.class) :
        /\ fn' = "generate"
        /\ args' = [random_numbers |-> random_numbers]
    /\ loc' = NoLocals
    /\ iter' = 0
    /\ pc' = "loop"
    /\ result' = NoResult
    /\ UNCHANGED <<sequence, xn, chi, self, caller>>
    /\ UNCHANGED <<valoresArchivo, indiceArchivo>>

RECURSIVE TableScan(_, _, _, _, _)
\* the inner loop of TableDistribution.generate from item k on, cumulative
\* being the mass of the items before it: the labels appended, one or none
TableScan(values, probabilities, r, k, cumulative) ==
    IF k > Len(values) THEN <<>>
    ELSE LET mass == RatAdd(cumulative, probabilities[k])
         IN  IF ~RatLess(mass, r) THEN <<values[k]>>
             ELSE TableScan(values, probabilities, r, k + 1, mass)

\* one iteration of `for r in random_numbers` of TableDistribution.generate
StepTable ==
    /\ pc = "loop" /\ fn = "generate" /\ self.class = "TableDistribution"
    /\ iter < Len(args.random_numbers)
    /\ loc' = [loc EXCEPT !.result = @ \o TableScan(self.values, self.probabilities,
                                                    args.random_numbers[iter + 1],
                                                    1, Rat(0, 1))]
    /\ iter' = iter + 1
    /\ UNCHANGED <<pc, fn, args, sequence, xn, result, chi, self, caller>>
    /\ UNCHANGED <<valoresArchivo, indiceArchivo>>

RECURSIVE Factorial(_)
Factorial(k) == IF k <= 1 THEN 1 ELSE k * Factorial(k - 1)

\* binom.pmf(x, n, p) = C(n, x) p^x (1 - p)^(n - x)
BinomPmf(x, n, p) ==
    Rat((Factorial(n) \div (Factorial(x) * Factorial(n - x)))
            * PyPow(p[1], x) * PyPow(p[2] - p[1], n - x),
        PyPow(p[2], n))

RECURSIVE BinomialScan(_, _, _, _)
\* the while loop of BinomialDistribution.generate from x on: what it
\* appended and the x it ended with
BinomialScan(obj, r, x, cdf) ==
    IF x <= obj.n
    THEN LET mass == RatAdd(cdf, BinomPmf(x, obj.n, obj.p))
         IN  IF ~RatLess(mass, r) THEN [appended |-> <<x>>, x |-> x]
             ELSE BinomialScan(obj, r, x + 1, mass)
    ELSE [appended |-> <<>>, x |-> x]

BinomialSamplesNoFallback(obj, r) == BinomialScan(obj, r, 0, Rat(0, 1)).appended

\* the body of `for r in random_numbers`: the scan, then `if x > self.n`
BinomialSamples(obj, r) ==
    LET scan == BinomialScan(obj, r, 0, Rat(0, 1))
    IN  IF scan.x > obj.n THEN Append(scan.appended, obj.n) ELSE scan.appended

StepBinomial ==
    /\ pc = "loop" /\ fn = "generate" /\ self.class = "BinomialDistribution"
    /\ iter < Len(args.random_numbers)
    /\ loc' = [loc EXCEPT !.result = @ \o BinomialSamples(self, args.random_numbers[iter + 1])]
    /\ iter' = iter + 1
    /\ UNCHANGED <<pc, fn, args, sequence, xn, result, chi, self, caller>>
    /\ UNCHANGED <<valoresArchivo, indiceArchivo>>

\* exp(-lambda_) to three decimals, lambda_ = 1/2, 1, 3/2, 2, 5/2
ExpNeg(lambda_) ==
    Rat(<<607, 368, 223, 135, 82>>[RatTrunc(RatMul(lambda_, Rat(2, 1)))], 1000)

\* poisson.pmf(x, lambda_) = exp(-lambda_) lambda_^x / x!
PoissonPmf(x, lambda_) ==
    RatMul(ExpNeg(lambda_),
           Rat(PyPow(lambda_[1], x), PyPow(lambda_[2], x) * Factorial(x)))

PoissonTruncatedLate(x, lambda_) == RatLess(RatMul(Rat(4, 1), lambda_), Rat(x, 1))

\* x > 3 * self.lambda_
PoissonTruncated(x, lambda_) == RatLess(RatMul(Rat(3, 1), lambda_), Rat(x, 1))

\* `for r in random_numbers` of PoissonDistribution.generate reaches the next
\* r: x = 0; cdf = 0
PoissonBegin ==
    /\ pc = "loop" /\ fn = "generate" /\ self.class = "PoissonDistribution"
    /\ iter < Len(args.random_numbers)
    /\ loc' = [loc EXCEPT !.x = 0, !.cdf = Rat(0, 1)]
    /\ pc' = "scan"
    /\ UNCHANGED <<fn, args, sequence, xn, iter, result, chi, self, caller>>
    /\ UNCHANGED <<valoresArchivo, indiceArchivo>>

\* one iteration of `while True`
PoissonScan ==
    /\ pc = "scan"
    /\ LET r == args.random_numbers[iter + 1]
           cdf == RatAdd(loc.cdf, PoissonPmf(loc.x, self.lambda_))
       IN  IF ~RatLess(cdf, r)
           THEN /\ loc' = [loc EXCEPT !.cdf = cdf, !.result = Append(@, loc.x)]
                /\ pc' = "loop"
                /\ iter' = iter + 1
           ELSE IF PoissonTruncated(loc.x + 1, self.lambda_)
           THEN /\ loc' = [loc EXCEPT !.cdf = cdf, !.x = loc.x + 1,
                                      !.result = Append(@, loc.x + 1)]
                /\ pc' = "loop"
                /\ iter' = iter + 1
           ELSE /\ loc' = [loc EXCEPT !.cdf = cdf, !.x = loc.x + 1]
                /\ UNCHANGED <<pc, iter>>
    /\ UNCHANGED <<fn, args, sequence, xn, result, chi, self, caller>>
    /\ UNCHANGED <<valoresArchivo, indiceArchivo>>

\* math.sqrt(-2 * math.log(u1)) to three decimals for u1 = 1/4, 1/2, 3/4, 1
BoxMullerRadius(u1) ==
    Rat(<<1665, 1177, 759, 0>>[RatTrunc(RatMul(u1, Rat(4, 1)))], 1000)

\* x0 and x1 before discretization: z0 = radius * cos(2 pi u2),
\* z1 = radius * sin(2 pi u2), u2 a multiple of 1/4; x = z * sigma + mu
NormalPair(obj, u1, u2) ==
    LET quarter == RatTrunc(RatMul(u2, Rat(4, 1))) % 4
        cos == Rat(<<1, 0, 0 - 1, 0>>[quarter + 1], 1)
        sin == Rat(<<0, 1, 0, 0 - 1>>[quarter + 1], 1)
        z0 == RatMul(BoxMullerRadius(u1), cos)
        z1 == RatMul(BoxMullerRadius(u1), sin)
    IN  <<RatAdd(RatMul(z0, obj.sigma), obj.mu), RatAdd(RatMul(z1, obj.sigma), obj.mu)>>

\* min_val and max_val of the class discretization
ClassRange(obj) ==
    [min_val |-> IF obj.class_min # None THEN obj.class_min[1]
                 ELSE RatMul(Rat(0 - 3, 1), obj.sigma),
     max_val |-> IF obj.class_max # None THEN obj.class_max[1]
                 ELSE RatMul(Rat(3, 1), obj.sigma)]

\* x = min_val + (int((x - min_val) / class_width) + 0.5) * class_width;
\* x = max(min(x, max_val), min_val)
Discretize(obj, x) ==
    LET min_val == ClassRange(obj).min_val
        max_val == ClassRange(obj).max_val
        class_width == RatDiv(RatSub(max_val, min_val), Rat(obj.num_classes[1], 1))
        midpoint == RatAdd(min_val,
                           RatMul(RatAdd(Rat(RatTrunc(RatDiv(RatSub(x, min_val),
                                                             class_width)), 1),
                                         Rat(1, 2)),
                                  class_width))
        below == IF RatLess(max_val, midpoint) THEN max_val ELSE midpoint
    IN  IF RatLess(below, min_val) THEN min_val ELSE below

StepNormalSkippingZero ==
    /\ pc = "loop" /\ fn = "generate" /\ self.class = "NormalDistribution"
    /\ 2 * iter + 1 < Len(args.random_numbers)
    /\ LET u1 == args.random_numbers[2 * iter + 1]
           u2 == args.random_numbers[2 * iter + 2]
       IN  IF u1[1] <= 0 \/ RatLess(Rat(1, 1), u1)
           THEN /\ iter' = iter + 1
                /\ UNCHANGED <<pc, result, loc>>
           ELSE LET x == NormalPair(self, u1, u2)
                    x0 == IF self.num_classes # None THEN Discretize(self, x[1]) ELSE x[1]
                    x1 == IF self.num_classes # None THEN Discretize(self, x[2]) ELSE x[2]
                IN  /\ loc' = [loc EXCEPT !.raw = @ \o x, !.result = @ \o <<x0, x1>>]
                    /\ iter' = iter + 1
                    /\ UNCHANGED <<pc, result>>
    /\ UNCHANGED <<fn, args, sequence, xn, chi, self, caller>>
    /\ UNCHANGED <<valoresArchivo, indiceArchivo>>

\* one iteration of `for i in range(0, len(random_numbers), 2)` that does not
\* break: i = 2 * iter.  math.log(u1) raises for u1 <= 0 and math.sqrt for
\* u1 > 1.
StepNormal ==
    /\ pc = "loop" /\ fn = "generate" /\ self.class = "NormalDistribution"
    /\ 2 * iter + 1 < Len(args.random_numbers)
    /\ LET u1 == args.random_numbers[2 * iter + 1]
           u2 == args.random_numbers[2 * iter + 2]
       IN  IF u1[1] <= 0 \/ RatLess(Rat(1, 1), u1)
           THEN /\ pc' = "error"
                /\ result' = Raise("math domain error")
                /\ UNCHANGED <<loc, iter>>
           ELSE LET x == NormalPair(self, u1, u2)
                    x0 == IF self.num_classes # None THEN Discretize(self, x[1]) ELSE x[1]
                    x1 == IF self.num_classes # None THEN Discretize(self, x[2]) ELSE x[2]
                IN  /\ loc' = [loc EXCEPT !.raw = @ \o x, !.result = @ \o <<x0, x1>>]
                    /\ iter' = iter + 1
                    /\ UNCHANGED <<pc, result>>
    /\ UNCHANGED <<fn, args, sequence, xn, chi, self, caller>>
    /\ UNCHANGED <<valoresArchivo, indiceArchivo>>

\* the loop of generate is over (for the Normal class: the range is
\* exhausted or i + 1 >= len(random_numbers)): return result
ReturnGenerate ==
    /\ pc = "loop" /\ fn = "generate"
    /\ IF self.class = "NormalDistribution"
       THEN 2 * iter + 1 >= Len(args.random_numbers)
       ELSE iter >= Len(args.random_numbers)
    /\ pc' = "done"
    /\ result' = Return(loc.result)
    /\ UNCHANGED <<fn, args, sequence, xn, iter, chi, self, loc, caller>>
    /\ UNCHANGED <<valoresArchivo, indiceArchivo>>

RangePointsWithoutEnd == 101 - 1

\* range(101) of the continuous cases: the end points of 100 intervals
RangePoints == 101

\* the keys of the dictionary get_theoretical_probabilities returns, in
\* order (its values are densities and masses of scipy.stats)
get_theoretical_probabilities(obj) ==
    IF obj.class = "TableDistribution" THEN obj.values
    ELSE IF obj.class = "BinomialDistribution" THEN [k \in 1..(obj.n + 1) |-> k - 1]
    ELSE IF obj.class = "PoissonDistribution"
    THEN \* max_k = int(lambda_ + 3 * sqrt(lambda_)): the largest k with
         \* k <= lambda_ or (k - lambda_)^2 <= 9 * lambda_
         LET num == obj.lambda_[1]
             den == obj.lambda_[2]
             max_k == CHOOSE k \in 0..(4 * num + 3) :
                        /\ k * den <= num \/ (k * den - num) * (k * den - num) <= 9 * num * den
                        /\ ~(((k + 1) * den - num) * ((k + 1) * den - num) <= 9 * num * den)
         IN  [k \in 1..(max_k + 1) |-> k - 1]
    ELSE IF obj.class = "ExponentialDistribution"
    THEN IF obj.discrete_step # None
         THEN LET min_x == IF obj.discrete_min # None THEN obj.discrete_min[1] ELSE Rat(0, 1)
                  max_x == IF obj.discrete_max # None THEN obj.discrete_max[1]
                           ELSE RatDiv(Rat(3, 1), obj.lambda_)
                  count == RatTrunc(RatDiv(RatSub(max_x, min_x), obj.discrete_step[1])) + 1
              IN  [i \in 1..count |->
                      RatAdd(min_x, RatMul(Rat(i - 1, 1), obj.discrete_step[1]))]
         ELSE LET max_x == RatDiv(Rat(3, 1), obj.lambda_)
                  step == RatDiv(max_x, Rat(100, 1))
              IN  [i \in 1..RangePoints |-> RatMul(Rat(i - 1, 1), step)]
    ELSE IF obj.num_classes # None
    THEN LET min_val == ClassRange(obj).min_val
             class_width == RatDiv(RatSub(ClassRange(obj).max_val, min_val),
                                   Rat(obj.num_classes[1], 1))
         IN  [i \in 1..obj.num_classes[1] |->
                 RatAdd(min_val, RatMul(RatAdd(Rat(i - 1, 1), Rat(1, 2)), class_width))]
    ELSE LET min_x == RatSub(obj.mu, RatMul(Rat(3, 1), obj.sigma))
             max_x == RatAdd(obj.mu, RatMul(Rat(3, 1), obj.sigma))
             step == RatDiv(RatSub(max_x, min_x), Rat(100, 1))
         IN  [i \in 1..RangePoints |-> RatAdd(min_x, RatMul(Rat(i - 1, 1), step))]

CallTheoretical ==
    /\ pc = "idle" /\ self.class # "none"
    /\ fn' = "get_theoretical_probabilities"
    /\ args' = [n |-> 0]
    /\ result' = Return(get_theoretical_probabilities(self))
    /\ pc' = "done"
    /\ UNCHANGED <<sequence, xn, iter, chi, self, loc, caller>>
    /\ UNCHANGED <<valoresArchivo, indiceArchivo>>

NextDist ==
    \/ CallCreateDistribution \/ CallGenerate
    \/ StepTable \/ StepBinomial
    \/ PoissonBegin \/ PoissonScan
    \/ StepNormal \/ ReturnGenerate
    \/ CallTheoretical

SpecDist == Init /\ [][NextDist]_vars

\* the interpreter keeps running a loop it has entered
SpecDistFair == SpecDist /\ WF_vars(PoissonScan)

\* generarMuestraArtificial's two dispatches: the generator by name, the
\* distribution by tipo
SpecDispatch == Init /\ [][NextPipeline \/ NextDist]_vars

\* generarMuestraArtificial after generarDatosNormalizados has returned:
\* distribution = create_distribution(datos["metodo_distribucion"]);
\* distribution.generate(normalized) begins.  metodo_distribucion is a
\* Normal distribution without classes, and the normalized values are
\* multiples of 1/4, the uniforms BoxMullerRadius and NormalPair cover.
CreateAndGenerate ==
    /\ caller.fn = "generarDatosNormalizados" /\ caller.pos = "returned"
    /\ pc = "done" /\ self.class = "none"
    /\ \A i \in 1..Len(caller.normalized) : caller.normalized[i][2] \in {1, 2, 4}
    /\ \E params \in {q \in DistributionParams :
                        /\ q.tipo = "normal" /\ q.num_classes = None
                        /\ q.class_min = None /\ q.class_max = None} :
        LET made == create_distribution(params)
        IN  IF made.kind = "raise"
            THEN /\ fn' = "create_distribution"
                 /\ args' = [params |-> params]
                 /\ pc' = "error"
                 /\ result' = made
                 /\ UNCHANGED self
            ELSE /\ fn' = "generate"
                 /\ args' = [random_numbers |-> caller.normalized]
                 /\ pc' = "loop"
                 /\ result' = NoResult
                 /\ self' = made.value
    /\ iter' = 0
    /\ loc' = NoLocals
    /\ caller' = [caller EXCEPT !.fn = "generarMuestraArtificial", !.pos = "distribution"]
    /\ UNCHANGED <<sequence, xn, chi, valoresArchivo, indiceArchivo>>

SpecMuestra == Init /\ [][NextPipeline \/ CreateAndGenerate \/ NextDist]_vars

----------------------------------------------------------------------------
(* gui/main_window.py: on_generate, the handler of the Generate button,  *)
(* calls the generator of the selected method; the button can be pressed *)
(* again after a call has returned or raised                             *)

MaxRepeatN == 2
MaxRepeatSeed == 2
MaxCalls == 3

\* what the parameter form and the selector hold at a click
FormValues(counts) ==
    {[nombre |-> "Von Neumann", n |-> n, d |-> 2, x1 |-> 9 + s] :
        n \in counts, s \in 0..MaxRepeatSeed}
    \cup {[nombre |-> "Fibonacci", n |-> n, x0 |-> x0, x1 |-> x1, m |-> m] :
        n \in counts, x0 \in 1..MaxRepeatSeed, x1 \in 1..MaxRepeatSeed,
        m \in MaxRepeatSeed..(MaxRepeatSeed + 1)}
    \cup {[nombre |-> "Mixed Congruential", n |-> n, x0 |-> x0, a |-> a, c |-> c, m |-> m] :
        n \in counts, x0 \in 1..MaxRepeatSeed, a \in 1..MaxRepeatSeed,
        c \in 1..MaxRepeatSeed, m \in MaxRepeatSeed..(MaxRepeatSeed + 1)}
    \cup {[nombre |-> "Additive Congruential", n |-> n, x0 |-> x0, c |-> c, m |-> m] :
        n \in counts, x0 \in 1..MaxRepeatSeed, c \in 1..MaxRepeatSeed,
        m \in MaxRepeatSeed..(MaxRepeatSeed + 1)}
    \cup {[nombre |-> "Multiplicative Congruential", n |-> n, x0 |-> x0, a |-> a, m |-> m] :
        n \in counts, x0 \in 1..MaxRepeatSeed, a \in 1..MaxRepeatSeed,
        m \in MaxRepeatSeed..(MaxRepeatSeed + 1)}

\* the if/elif chain on the selected method: the call of its generator
CallSelected(p) ==
    IF p.nombre = "Von Neumann" THEN EnterMidSquare(p.n, p.d, p.x1)
    ELSE IF p.nombre = "Fibonacci" THEN EnterFibonacci(p.n, p.x0, p.x1, p.m)
    ELSE IF p.nombre = "Mixed Congruential" THEN EnterMixed(p.n, p.x0, p.a, p.c, p.m)
    ELSE IF p.nombre = "Additive Congruential" THEN EnterAdditive(p.n, p.x0, p.c, p.m)
    ELSE EnterMultiplicative(p.n, p.x0, p.a, p.m)

\* a click on Generate.  The frame remembers the values of the first click
\* and what its call gave, and the values of a click in between; the last
\* clicks repeat the first.
OnGenerate ==
    /\ self.class = "none"
    /\ \/ /\ pc = "idle" /\ caller = NoCaller
          /\ \E p \in FormValues(1..MaxRepeatN) :
              /\ CallSelected(p)
              /\ caller' = [fn |-> "on_generate", clicks |-> 1, params |-> p,
                            first |-> NoResult, between |-> <<>>]
       \/ /\ pc \in {"done", "error"} /\ caller.fn = "on_generate"
          /\ caller.clicks < MaxCalls
          /\ \E p \in (IF caller.clicks = 1
                        THEN FormValues({MaxRepeatN}) \cup {caller.params}
                        ELSE {caller.params}) :
              /\ CallSelected(p)
              /\ caller' = [caller EXCEPT
                                !.clicks = @ + 1,
                                !.first = IF caller.clicks = 1 THEN result ELSE @,
                                !.between = IF caller.clicks = 1 /\ p # caller.params
                                            THEN <<p>> ELSE @]
    /\ UNCHANGED <<chi, self, loc>>
    /\ UNCHANGED <<valoresArchivo, indiceArchivo>>

NextRepeat ==
    \/ OnGenerate
    \/ StepMidSquare \/ ReturnMidSquare
    \/ StepFibonacci \/ ReturnFibonacci
    \/ StepMixed \/ ReturnMixed
    \/ StepAdditive \/ ReturnAdditive
    \/ StepMultiplicative \/ ReturnMultiplicative

SpecRepeat == Init /\ [][NextRepeat]_vars

----------------------------------------------------------------------------
(* mainCasoBarUcp.py: the values file and its cursor.  The file's text is  *)
(* a sequence of characters                                               *)

MaxValores == 3      \* the file holds at most MaxValores texts
MaxCursorCalls == 7  \* the simulation takes at most MaxCursorCalls values

ValueTexts == {<<"0", ".", "5">>, <<"0", ".", "2", "5">>, <<"1">>}

RECURSIVE JoinCommaSpace(_)
JoinCommaSpace(texts) ==
    IF Len(texts) = 1 THEN texts[1]
    ELSE texts[1] \o <<",", " ">> \o JoinCommaSpace(Tail(texts))

\* what valoresGenerados.txt can hold: values separated by ", ", bare or
\* written as a list in brackets, the empty list, nothing
ArchivoTexts ==
    LET joined == {JoinCommaSpace(texts) :
                      texts \in UNION {[1..k -> ValueTexts] : k \in 1..MaxValores}}
    IN  joined \cup {<<"[">> \o t \o <<"]">> : t \in joined}
        \cup {<<"[", "]">>, <<>>}

\* s.replace("[]", "")
RECURSIVE ReplaceEmptyList(_)
ReplaceEmptyList(s) ==
    IF Len(s) < 2 THEN s
    ELSE IF s[1] = "[" /\ s[2] = "]" THEN ReplaceEmptyList(SubSeq(s, 3, Len(s)))
    ELSE <<s[1]>> \o ReplaceEmptyList(Tail(s))

\* s.split(', '): never empty, the whole of s when s has no separator
RECURSIVE SplitCommaSpace(_)
SplitCommaSpace(s) ==
    LET at == {i \in 1..(Len(s) - 1) : s[i] = "," /\ s[i + 1] = " "}
        first == CHOOSE i \in at : \A j \in at : i <= j
    IN  IF at = {} THEN <<s>>
        ELSE <<SubSeq(s, 1, first - 1)>> \o SplitCommaSpace(SubSeq(s, first + 2, Len(s)))

\* float(s) for texts of digits with at most one point and an optional
\* leading minus sign; ValueError for the empty text and for any other
\* character (float also takes blanks, exponents, inf and nan, which the
\* texts of the model do not hold)
PyFloat(s) ==
    LET body == IF s # <<>> /\ s[1] = "-" THEN Tail(s) ELSE s
        sgn == IF s # <<>> /\ s[1] = "-" THEN 0 - 1 ELSE 1
        points == {i \in 1..Len(body) : body[i] = "."}
        point == CHOOSE i \in points : TRUE
        digits == IF points = {} THEN body
                  ELSE SubSeq(body, 1, point - 1) \o SubSeq(body, point + 1, Len(body))
        decimals == IF points = {} THEN 0 ELSE Len(body) - point
    IN  IF Cardinality(points) <= 1 /\ AllDigits(digits)
        THEN Return(Rat(sgn * DigitsValue(digits), PyPow(10, decimals)))
        ELSE Raise("could not convert string to float")

CursorExhaustedLate(indice, valores) == indice > Len(valores)

\* indiceArchivo > len(valoresArchivo) - 1
CursorExhausted(indice, valores) == indice > Len(valores) - 1

\* the module's top level: valoresArchivo = archivo.read().replace("[]",
\* "").split(', '); indiceArchivo = 0
LoadValores ==
    /\ pc = "idle" /\ fn = "none"
    /\ \E text \in ArchivoTexts :
        valoresArchivo' = SplitCommaSpace(ReplaceEmptyList(text))
    /\ indiceArchivo' = 0
    /\ fn' = "mainCasoBarUcp"
    /\ UNCHANGED <<pc, args, sequence, xn, iter, result, chi, self, loc, caller>>

\* a call of obtenerSiguienteValorDeArchivo(); iter counts the calls the
\* simulation has made.  An index past the end of the list and a text
\* that is no number raise before the cursor advances.
obtenerSiguienteValorDeArchivo ==
    /\ fn \in {"mainCasoBarUcp", "obtenerSiguienteValorDeArchivo"}
    /\ pc \in {"idle", "done"}
    /\ iter < MaxCursorCalls
    /\ LET indice == IF CursorExhausted(indiceArchivo, valoresArchivo)
                     THEN 0 ELSE indiceArchivo
           valorObtenido == IF indice < Len(valoresArchivo)
                            THEN PyFloat(valoresArchivo[indice + 1])
                            ELSE [kind |-> "raise", exc |-> "IndexError",
                                  msg |-> "list index out of range"]
       IN  /\ result' = valorObtenido
           /\ IF valorObtenido.kind = "raise"
              THEN pc' = "error" /\ indiceArchivo' = indice
              ELSE pc' = "done" /\ indiceArchivo' = indice + 1
    /\ fn' = "obtenerSiguienteValorDeArchivo"
    /\ iter' = iter + 1
    /\ UNCHANGED <<args, sequence, xn, chi, self, loc, caller, valoresArchivo>>

SpecCursor == Init /\ [][LoadValores \/ obtenerSiguienteValorDeArchivo]_vars

----------------------------------------------------------------------------
(* Properties of the congruential and Fibonacci generators (under Spec) *)

Returned == pc = "done" /\ result.kind = "return"
Raised == pc = "error" /\ result.kind = "raise"

MixedExample == [n |-> 5, x0 |-> 7, a |-> 5, c |-> 3, m |-> 16]

\* C1: a MixedCongruential call with valid parameters returns n+1 terms, the
\* first is the seed x0, every consecutive pair satisfies
\* x_{i+1} = (a*x_i + c) mod m, and n=5, x0=7, a=5, c=3, m=16 gives
\* [7,6,1,8,11,10]; a call that raises had invalid parameters.
C1_MixedSequence ==
    fn = "mixed" =>
        /\ Returned =>
            LET s == result.value IN
            /\ Len(s) = args.n + 1
            /\ s[1] = args.x0
            /\ \A i \in 1..args.n : s[i + 1] = (args.a * s[i] + args.c) % args.m
            /\ args = MixedExample => s = <<7, 6, 1, 8, 11, 10>>
        /\ Raised =>
            ~(/\ args.x0 > 0 /\ args.a > 0 /\ args.c > 0
              /\ args.m > args.x0 /\ args.m > args.a /\ args.m > args.c)

C1_Witness ==
    /\ fn = "mixed" /\ Returned
    /\ args = MixedExample
    /\ result.value = <<7, 6, 1, 8, 11, 10>>

\* C2: Additive and Multiplicative calls with valid parameters return exactly
\* n terms without the seed: the first is (x0 + c) mod m, respectively
\* (a*x0) mod m, and each later term follows from its predecessor by the same
\* recurrence.
C2_SeedExcluded ==
    /\ (fn = "additive" /\ Returned) =>
        LET s == result.value IN
        /\ Len(s) = args.n
        /\ args.n >= 1 => s[1] = (args.x0 + args.c) % args.m
        /\ \A i \in 1..(args.n - 1) : s[i + 1] = (s[i] + args.c) % args.m
    /\ (fn = "multiplicative" /\ Returned) =>
        LET s == result.value IN
        /\ Len(s) = args.n
        /\ args.n >= 1 => s[1] = (args.a * args.x0) % args.m
        /\ \A i \in 1..(args.n - 1) : s[i + 1] = (args.a * s[i]) % args.m
    /\ (fn \in {"additive", "multiplicative"} /\ Raised) =>
        \/ args.x0 <= 0
        \/ args.m <= args.x0
        \/ fn = "additive" /\ (args.c <= 0 \/ args.m <= args.c)
        \/ fn = "multiplicative" /\ (args.a <= 0 \/ args.m <= args.a)

C2_Witness ==
    /\ fn = "additive" /\ Returned
    /\ args = [n |-> 3, x0 |-> 5, c |-> 3, m |-> 7]
    /\ result.value = <<1, 4, 0>>

\* C4: a Fibonacci call with valid parameters returns exactly n terms, both
\* seeds dropped; term k is the sum mod m of the two terms that precede it
\* in the full sequence x0, x1, ...
C4_Fibonacci ==
    fn = "fibonacci" =>
        /\ Returned =>
            LET s == result.value
                full == <<args.x0, args.x1>> \o s
            IN  /\ Len(s) = args.n
                /\ \A k \in 1..args.n : s[k] = (full[k] + full[k + 1]) % args.m
        /\ Raised =>
            ~(/\ args.x0 > 0 /\ args.x1 > 0
              /\ args.m > args.x0 /\ args.m > args.x1)

C4_Witness ==
    /\ fn = "fibonacci" /\ Returned
    /\ args = [n |-> 4, x0 |-> 3, x1 |-> 5, m |-> 7]
    /\ result.value = <<1, 6, 0, 6>>

\* The seeds, multipliers and additive constants of the current call, by name
SeedLike ==
    CASE fn = "mixed" -> {args.x0, args.a, args.c}
      [] fn = "additive" -> {args.x0, args.c}
      [] fn = "multiplicative" -> {args.x0, args.a}
      [] fn = "fibonacci" -> {args.x0, args.x1}
      [] OTHER -> {}

InvalidParameter ==
    \/ \E p \in SeedLike : p <= 0
    \/ \E p \in SeedLike : ~(args.m > p)

\* C8: the Fibonacci, Mixed, Additive and Multiplicative generators raise
\* ValueError exactly when some seed, multiplier or additive constant is <= 0
\* or the modulus does not strictly exceed each of them; the error comes
\* before any term is computed, and no valid call raises.
C8_Validation ==
    (fn \in {"mixed", "additive", "multiplicative", "fibonacci"} /\ pc # "idle") =>
        /\ InvalidParameter <=> Raised
        /\ Raised => /\ result.exc = "ValueError"
                     /\ sequence = <<>>
                     /\ iter = 0
        /\ ~InvalidParameter => pc \in {"loop", "done"}

C8_Witness ==
    /\ fn = "fibonacci" /\ Raised
    /\ args.x0 > 0 /\ args.x1 > 0
    /\ args.m = args.x1
    /\ sequence = <<>>

----------------------------------------------------------------------------
(* Properties of mid_square.py (under SpecMidSquare) *)

RECURSIVE Pow10(_)
Pow10(k) == IF k <= 0 THEN 1 ELSE 10 * Pow10(k - 1)

Abs(x) == IF x < 0 THEN 0 - x ELSE x

\* number of decimal digits of |x|
DecimalDigits(x) == CHOOSE k \in 1..20 : Pow10(k - 1) <= Abs(x) + (IF x = 0 THEN 1 ELSE 0)
                                         /\ Abs(x) < Pow10(k)

\* C3: a MidSquare call with a valid d-digit seed returns exactly n terms,
\* the terms that follow the first two terms of the series.
C3_ReturnsNTerms ==
    (fn = "mid_square" /\ Returned /\ args.x1 > 0 /\ DecimalDigits(args.x1) = args.d) =>
        /\ Len(result.value) = args.n
        /\ result.value = SliceFrom(sequence, 2)

\* C9: MidSquare rejects every seed whose decimal digit count differs from d
\* and every seed that is not positive: no such call returns a list.
C9_RejectsInvalidSeed ==
    (fn = "mid_square" /\ (DecimalDigits(args.x1) # args.d \/ args.x1 <= 0)) =>
        ~Returned

\* C10: for a non-negative v and a digit count d >= 1,
\* extract_middle_digits(v, d) pads the decimal rendering of v with exactly
\* one "0" iff its length parity differs from d's, raises "fewer digits than
\* required" iff the padded rendering is shorter than d, and otherwise
\* returns the d digits starting at index (length - d) div 2: as many digits
\* lie left of the window as right of it, the result is in 0 .. 10^d - 1,
\* and v=1234, d=2 gives 23.
C10_ExtractMiddle ==
    (fn = "extract_middle_digits" /\ pc # "idle" /\ args.squared >= 0 /\ args.d >= 1) =>
        LET v == args.squared
            d == args.d
            len == DecimalDigits(v)
            pad == (len % 2) # (d % 2)
            plen == IF pad THEN len + 1 ELSE len
            start == (plen - d) \div 2
            right == plen - start - d
        IN  /\ PaddedStr(v, d) = (IF pad THEN <<"0">> ELSE <<>>) \o PyStr(v)
            /\ Len(PaddedStr(v, d)) = plen
            /\ Raised <=> plen < d
            /\ Raised => result.msg = "Squared number has fewer digits than required"
            /\ Returned =>
                /\ (plen - d) % 2 = 0
                /\ start = right
                /\ result.value = (v \div Pow10(right)) % Pow10(d)
                /\ result.value \in 0..(Pow10(d) - 1)
            /\ (v = 1234 /\ d = 2) => result = Return(23)

C10_Witness ==
    /\ fn = "extract_middle_digits" /\ Returned
    /\ args = [squared |-> 1234, d |-> 2]
    /\ result.value = 23

----------------------------------------------------------------------------
(* Properties of chi_square.py (under SpecChi) *)

RECURSIVE IntSum(_, _)
\* the sum of f[x] over x in S, integers
IntSum(S, f) == IF S = {} THEN 0
                ELSE LET x == CHOOSE y \in S : TRUE IN f[x] + IntSum(S \ {x}, f)

\* the rational r equals num / den
RatEquals(r, num, den) == r[1] * den = r[2] * num

DistributionCall == fn = "chi_square_test_distribution" /\ Returned

ObservedSet == {args.observed_values[i] : i \in 1..Len(args.observed_values)}
Categories == ObservedSet \cup DOMAIN args.theoretical_probs
ObservedCount(l) == Cardinality({i \in 1..Len(args.observed_values) : args.observed_values[i] = l})
\* probability of label l as <<numerator, denominator>>, 0 when l has none
Probability(l) == IF l \in DOMAIN args.theoretical_probs THEN args.theoretical_probs[l]
                  ELSE <<0, 1>>
\* expected frequency probability * n >= 5
Included == {l \in Categories :
                Probability(l)[1] * Len(args.observed_values) >= 5 * Probability(l)[2]}

\* C5 as stated: the degrees of freedom are the number of categories with
\* expected frequency >= 5, minus 1.
C5_DfCountsIncluded ==
    DistributionCall => result.value.degrees_of_freedom = Cardinality(Included) - 1

\* C5 amended: the degrees of freedom are the number of labels in the union
\* of observed and theoretical labels, minus 1; categories skipped by the
\* statistic for expected frequency < 5 are still counted.
C5_DfCountsAllCategories ==
    DistributionCall => result.value.degrees_of_freedom = Cardinality(Categories) - 1

C5_Witness ==
    /\ DistributionCall
    /\ Included # {} /\ Included # Categories
    /\ result.value.degrees_of_freedom = Cardinality(Categories) - 1
    /\ result.value.degrees_of_freedom # Cardinality(Included) - 1

\* the fraction a/b + c/d in lowest terms
FracAdd(a, b, c, d) ==
    LET num == a * d + c * b
        den == b * d
        g == GCD(num, den)
    IN  <<num \div g, den \div g>>

RECURSIVE FracSum(_, _, _)
\* the sum of num[l]/den[l] over l in S, in lowest terms
FracSum(S, num, den) ==
    IF S = {} THEN <<0, 1>>
    ELSE LET l == CHOOSE x \in S : TRUE
             rest == FracSum(S \ {l}, num, den)
         IN  FracAdd(rest[1], rest[2], num[l], den[l])

\* C6: the distribution-fit statistic is the sum of (observed - expected)^2 /
\* expected over exactly the labels of the union whose expected frequency
\* (probability * n, 0 without a theoretical probability) is >= 5: labels
\* without a theoretical probability never contribute, never-observed
\* theoretical labels contribute with observed = 0.
\* With p = pn/pd the term is (obs*pd - pn*n)^2 / (pd*pn*n).
C6_DistributionStatistic ==
    DistributionCall =>
        LET n == Len(args.observed_values)
            termNum == [l \in Included |->
                           (ObservedCount(l) * Probability(l)[2] - Probability(l)[1] * n)
                           * (ObservedCount(l) * Probability(l)[2] - Probability(l)[1] * n)]
            termDen == [l \in Included |-> Probability(l)[2] * Probability(l)[1] * n]
        IN  /\ result.value.chi_square = FracSum(Included, termNum, termDen)
            /\ Included \subseteq DOMAIN args.theoretical_probs

C6_Witness ==
    /\ DistributionCall
    /\ \E l \in Included : ObservedCount(l) = 0
    /\ \E l \in ObservedSet : l \notin DOMAIN args.theoretical_probs
    /\ \E l \in Included : ObservedCount(l) > 0
    /\ result.value.chi_square[1] > 0

UniformCall == fn = "chi_square_test_uniform" /\ args.k >= 1 /\ pc # "idle"

\* bin of value v = <<num, den>> with k bins: floor(v*k), k clamped to k-1
Bin(v, k) == LET b == (v[1] * k) \div v[2] IN IF b >= k THEN k - 1 ELSE b

\* C7: with k bins every value v in [0,1] is counted once, in bin floor(v*k)
\* (k clamped to k-1), so the counts sum to the number of values read, n at
\* the end; the statistic is the sum over all k bins of
\* (observed - n/k)^2 / (n/k) = (k*observed - n)^2 / (k*n), the degrees of
\* freedom are k-1; equal counts in every bin give statistic 0, and
\* 0.05, 0.15, ..., 0.95 with k = 10 gives statistic 0 and 9 degrees of
\* freedom.  (The statistic is undefined for an empty sequence: the call
\* raises ZeroDivisionError.)
C7_Uniformity ==
    UniformCall =>
        LET k == args.k
            n == Len(args.normalized_sequence)
            obs == chi.observed_frequencies
            bins == 0..(k - 1)
        IN  /\ \A i \in 1..n : LET v == args.normalized_sequence[i]
                               IN  0 <= v[1] /\ v[1] <= v[2]
            /\ Len(obs) = k
            /\ \A b \in bins :
                obs[b + 1] = Cardinality({i \in 1..iter :
                                            Bin(args.normalized_sequence[i], k) = b})
            /\ IntSum(bins, [b \in bins |-> obs[b + 1]]) = iter
            /\ pc \in {"done", "error"} => iter = n
            /\ Raised <=> (pc # "loop" /\ n = 0)
            /\ Returned =>
                /\ RatEquals(result.value.chi_square,
                             IntSum(bins, [b \in bins |-> (k * obs[b + 1] - n) * (k * obs[b + 1] - n)]),
                             k * n)
                /\ result.value.degrees_of_freedom = k - 1
                /\ (\A b \in bins : obs[b + 1] = obs[1]) => result.value.chi_square = <<0, 1>>
                /\ (args.normalized_sequence = TwentiethsSequence /\ k = 10) =>
                        /\ result.value.chi_square = <<0, 1>>
                        /\ result.value.degrees_of_freedom = 9

C7_Witness ==
    /\ fn = "chi_square_test_uniform" /\ Returned
    /\ args.normalized_sequence = TwentiethsSequence /\ args.k = 10
    /\ \A b \in 1..10 : chi.observed_frequencies[b] = 1
    /\ result.value = [chi_square |-> <<0, 1>>, degrees_of_freedom |-> 9]

\* C19: every result returned by the uniformity test (k >= 1) or by the
\* distribution-fit test, for any input including an empty observed list or
\* an empty theoretical mapping, has statistic >= 0 and degrees of
\* freedom >= 0.
C19_NonNegativeResult ==
    (/\ Returned
     /\ \/ fn = "chi_square_test_uniform" /\ args.k >= 1
        \/ fn = "chi_square_test_distribution") =>
        /\ result.value.chi_square[1] >= 0
        /\ result.value.chi_square[2] > 0
        /\ result.value.degrees_of_freedom >= 0

----------------------------------------------------------------------------
(* Properties of generarDatosNormalizados (under SpecPipeline) *)

PipelineReturned == caller.fn = "generarDatosNormalizados" /\ caller.pos = "returned"
PipelineRaised == caller.fn = "generarDatosNormalizados" /\ caller.pos = "raised"

\* the modulus the pipeline normalises with: 10^d for MidSquare, m otherwise
PipelineModulus ==
    IF caller.parametrosDeGeneracion.nombre = "Von Neumann"
    THEN Pow10(caller.parametrosDeGeneracion.d)
    ELSE caller.parametrosDeGeneracion.m

\* C11: every raw term e a generator returns to the pipeline satisfies
\* 0 <= e < modulus for the modulus the pipeline normalises with (m for the
\* Fibonacci and congruential variants, the seed term of MixedCongruential
\* included, and 10^d for MidSquare), so every normalised value e / modulus
\* lies in [0, 1).
C11_UnitInterval ==
    PipelineReturned =>
        /\ caller.sequence = result.value
        /\ \A i \in 1..Len(caller.sequence) :
            0 <= caller.sequence[i] /\ caller.sequence[i] < PipelineModulus
        /\ Len(caller.normalized) = Len(caller.sequence)
        /\ \A i \in 1..Len(caller.normalized) :
            LET v == caller.normalized[i]
            IN  /\ v[2] > 0
                /\ 0 <= v[1] /\ v[1] < v[2]
                /\ v[1] * PipelineModulus = caller.sequence[i] * v[2]

C11_Witness ==
    /\ PipelineReturned
    /\ caller.parametrosDeGeneracion =
        [nombre |-> "Mixed Congruential", n |-> 3, x0 |-> 4, a |-> 3, c |-> 1, m |-> 5]
    /\ caller.sequence = <<4, 3, 0, 1>>
    /\ caller.normalized = <<<<4, 5>>, <<3, 5>>, <<0, 1>>, <<1, 5>>>>

----------------------------------------------------------------------------
(* Properties of distributions.py (under SpecDist) *)

\* a/b <= c/d for positive b and d
FracLeq(a, b, c, d) == LET g == GCD(b, d) IN a * (d \div g) <= c * (b \div g)

\* the sum of the first k probabilities of a list of rationals
CumulativeMass(probabilities, k) ==
    FracSum(1..k, [i \in 1..k |-> probabilities[i][1]], [i \in 1..k |-> probabilities[i][2]])

\* the first position of the table whose cumulative probability is >= r, 0 if none
FirstReaching(probabilities, r) ==
    LET reach == {k \in 1..Len(probabilities) :
                    LET c == CumulativeMass(probabilities, k)
                    IN  FracLeq(r[1], r[2], c[1], c[2])}
    IN  IF reach = {} THEN 0 ELSE CHOOSE k \in reach : \A j \in reach : k <= j

RECURSIVE LabelsReached(_, _, _, _)
\* for the first n uniforms in order, the label at the first position whose
\* cumulative probability is >= r
LabelsReached(values, probabilities, uniforms, n) ==
    IF n = 0 THEN <<>>
    ELSE LET k == FirstReaching(probabilities, uniforms[n])
         IN  LabelsReached(values, probabilities, uniforms, n - 1)
                 \o (IF k >= 1 THEN <<values[k]>> ELSE <<>>)

\* C13: constructing a TableDistribution raises unless the probabilities sum
\* to 1.0 within relative tolerance 1e-5 (a table summing to 0.9 is
\* rejected); for an accepted table generate maps each uniform r to the
\* first label, in table order, whose cumulative probability is >= r, so
\* with {A: 0.3, B: 0.7} uniform 0.25 gives A and uniform 0.5 gives B.
C13_TableDistribution ==
    /\ (fn = "create_distribution" /\ args.params.tipo = "tabla") =>
        LET table == args.params.tabla_contingencia
            total == CumulativeMass([i \in 1..Len(table) |-> table[i][2]], Len(table))
            within == IF total[1] <= total[2]
                      THEN (total[2] - total[1]) * 100000 <= total[2]
                      ELSE (total[1] - total[2]) * 100000 <= total[1]
        IN  /\ within <=> ~Raised
            /\ within <=> self.class = "TableDistribution"
            /\ Raised => result.exc = "ValueError"
            /\ total = <<9, 10>> => Raised
            /\ ~Raised => /\ Len(self.values) = Len(table)
                          /\ \A i \in 1..Len(table) : /\ self.values[i] = table[i][1]
                                                      /\ self.probabilities[i] = table[i][2]
    /\ (fn = "generate" /\ self.class = "TableDistribution") =>
        /\ loc.result = LabelsReached(self.values, self.probabilities,
                                      args.random_numbers, iter)
        /\ Returned => /\ iter = Len(args.random_numbers)
                       /\ result.value = loc.result
        /\ (/\ Returned
            /\ self.values = <<"A", "B">>
            /\ self.probabilities = << <<3, 10>>, <<7, 10>> >>
            /\ args.random_numbers = << <<1, 4>>, <<1, 2>> >>) => result.value = <<"A", "B">>

C13_Witness ==
    /\ fn = "generate" /\ Returned
    /\ self.class = "TableDistribution"
    /\ self.values = <<"A", "B">>
    /\ self.probabilities = << <<3, 10>>, <<7, 10>> >>
    /\ args.random_numbers = << <<1, 4>>, <<1, 2>> >>
    /\ result.value = <<"A", "B">>

RECURSIVE Power(_, _)
Power(b, e) == IF e <= 0 THEN 1 ELSE b * Power(b, e - 1)

RECURSIVE Pascal(_, _)
\* the binomial coefficient C(n, k) by Pascal's rule
Pascal(n, k) == IF k = 0 \/ k = n THEN 1
                ELSE IF k < 0 \/ k > n THEN 0
                ELSE Pascal(n - 1, k - 1) + Pascal(n - 1, k)

\* numerator of pmf(0) + ... + pmf(k) of Binomial(n, p) over the denominator p[2]^n
BinomialMass(k, n, p) ==
    IntSum(0..k, [j \in 0..k |-> Pascal(n, j) * Power(p[1], j) * Power(p[2] - p[1], n - j)])

\* the smallest k in 0..n whose cumulative mass is >= r, or n when there is none
BinomialQuantile(r, n, p) ==
    LET reach == {k \in 0..n : r[1] * Power(p[2], n) <= BinomialMass(k, n, p) * r[2]}
    IN  IF reach = {} THEN n ELSE CHOOSE k \in reach : \A j \in reach : k <= j

\* C14: constructing a BinomialDistribution raises iff p is outside [0,1] or
\* n < 1; generate emits exactly one integer per uniform r, the smallest k in
\* 0..n whose cumulative mass pmf(0)+...+pmf(k) is >= r, or n when the scan
\* over 0..n ends without reaching r, so every sample lies in 0..n;
\* Binomial(n=1, p=0.5) maps 0.1 to 0 and 0.9 to 1.
C14_BinomialDistribution ==
    /\ (fn = "create_distribution" /\ args.params.tipo = "binomial") =>
        LET n == args.params.n
            p == args.params.p
            invalid == p[1] < 0 \/ p[1] > p[2] \/ n < 1
        IN  /\ invalid <=> Raised
            /\ Raised => result.exc = "ValueError"
            /\ ~invalid <=> self = [class |-> "BinomialDistribution", n |-> n, p |-> p]
    /\ (fn = "generate" /\ self.class = "BinomialDistribution") =>
        /\ Len(loc.result) = iter
        /\ \A i \in 1..iter :
            /\ loc.result[i] = BinomialQuantile(args.random_numbers[i], self.n, self.p)
            /\ loc.result[i] \in 0..self.n
        /\ Returned => /\ iter = Len(args.random_numbers)
                       /\ result.value = loc.result
        /\ (/\ Returned /\ self.n = 1 /\ self.p = <<1, 2>>
            /\ args.random_numbers = << <<1, 10>>, <<9, 10>> >>) => result.value = <<0, 1>>

C14_Witness ==
    /\ fn = "generate" /\ Returned
    /\ self = [class |-> "BinomialDistribution", n |-> 1, p |-> <<1, 2>>]
    /\ args.random_numbers = << <<1, 10>>, <<9, 10>> >>
    /\ result.value = <<0, 1>>

\* pmf(0) + ... + pmf(k) of Poisson(lambda_)
PoissonMass(k, lambda_) == SumSeq([j \in 1..(k + 1) |-> PoissonPmf(j - 1, lambda_)])

\* floor(3 * lambda_)
TruncationFloor(lambda_) == (3 * lambda_[1]) \div lambda_[2]

\* the smallest k <= 3*lambda_ whose cumulative mass is >= r, or the first
\* k > 3*lambda_ when there is none
PoissonQuantile(r, lambda_) ==
    LET reach == {k \in 0..TruncationFloor(lambda_) : ~RatLess(PoissonMass(k, lambda_), r)}
    IN  IF reach = {} THEN TruncationFloor(lambda_) + 1
        ELSE CHOOSE k \in reach : \A j \in reach : k <= j

C15_ScanInvariant ==
    /\ (fn = "create_distribution" /\ args.params.tipo = "poisson") =>
        /\ args.params.lambda[1] <= 0 <=> Raised
        /\ Raised => result.exc = "ValueError"
        /\ args.params.lambda[1] > 0 <=>
            self = [class |-> "PoissonDistribution", lambda_ |-> args.params.lambda]
    /\ (fn = "generate" /\ self.class = "PoissonDistribution") =>
        /\ Len(loc.result) = iter
        /\ \A i \in 1..iter :
            /\ loc.result[i] = PoissonQuantile(args.random_numbers[i], self.lambda_)
            /\ loc.result[i] \in 0..(TruncationFloor(self.lambda_) + 1)
        /\ pc = "scan" =>
            /\ iter < Len(args.random_numbers)
            /\ loc.x \in 0..TruncationFloor(self.lambda_)
            /\ \A k \in 0..(loc.x - 1) :
                RatLess(PoissonMass(k, self.lambda_), args.random_numbers[iter + 1])
        /\ Returned => /\ iter = Len(args.random_numbers)
                       /\ result.value = loc.result

\* C15: constructing a PoissonDistribution raises iff lambda <= 0; for every
\* uniform r (also one larger than the total scanned mass) the inverse-CDF
\* scan terminates and emits exactly one value: the smallest k whose
\* cumulative mass is >= r if that is found before k exceeds 3*lambda,
\* otherwise the first k > 3*lambda, so every sample lies in
\* 0 .. floor(3*lambda)+1.
C15_PoissonTerminates ==
    /\ []C15_ScanInvariant
    /\ (pc = "scan") ~> (pc = "loop")

C15_Witness ==
    /\ fn = "generate" /\ Returned
    /\ self = [class |-> "PoissonDistribution", lambda_ |-> <<1, 1>>]
    /\ args.random_numbers = << <<9, 10>>, <<6, 5>> >>
    /\ result.value = <<2, 4>>

\* C16: NormalDistribution.generate consumes the uniforms pairwise in order
\* and emits two samples per pair without error: an input of length L gives
\* exactly 2*floor(L/2) samples, a trailing unpaired uniform is dropped, and
\* an input of length 0 or 1 gives an empty output.
C16_PairwiseSamples ==
    (fn = "generate" /\ self.class = "NormalDistribution") =>
        /\ ~Raised
        /\ Len(loc.result) = 2 * iter
        /\ \A i \in 1..iter :
            <<loc.raw[2 * i - 1], loc.raw[2 * i]>> =
                NormalPair(self, args.random_numbers[2 * i - 1], args.random_numbers[2 * i])
        /\ Returned => /\ Len(result.value) = 2 * (Len(args.random_numbers) \div 2)
                       /\ result.value = loc.result

ContinuousRange(obj) ==
    IF obj.class = "ExponentialDistribution"
    THEN <<Rat(0, 1), RatDiv(Rat(3, 1), obj.lambda_)>>
    ELSE <<RatSub(obj.mu, RatMul(Rat(3, 1), obj.sigma)),
           RatAdd(obj.mu, RatMul(Rat(3, 1), obj.sigma))>>

Continuous(obj) ==
    \/ obj.class = "ExponentialDistribution" /\ obj.discrete_step = None
    \/ obj.class = "NormalDistribution" /\ obj.num_classes = None

\* points is a list of count evenly spaced values from range[1] to range[2]
EvenlySpaced(points, count, range) ==
    /\ Len(points) = count
    /\ points[1] = range[1]
    /\ points[count] = range[2]
    /\ \A i \in 1..(count - 2) :
        RatSub(points[i + 1], points[i]) = RatSub(points[i + 2], points[i + 1])

TheoreticalReturned == fn = "get_theoretical_probabilities" /\ Returned

\* C17 as stated: get_theoretical_probabilities of the non-discretized
\* Exponential and Normal distributions returns exactly 100 evenly spaced
\* points over the default range, and of Binomial(n,p) one entry for every
\* integer 0..n.
C17_HundredPoints ==
    TheoreticalReturned =>
        /\ Continuous(self) => EvenlySpaced(result.value, 100, ContinuousRange(self))
        /\ self.class = "BinomialDistribution" =>
            result.value = [k \in 1..(self.n + 1) |-> k - 1]

\* C17 (amended): get_theoretical_probabilities of the non-discretized
\* Exponential and Normal distributions returns exactly 101 evenly spaced
\* points, the end points of 100 equal intervals of the default range (0 to
\* 3/lambda, mu-3*sigma to mu+3*sigma), both ends included; of Binomial(n,p)
\* it returns one entry for every integer 0..n.
C17_HundredIntervals ==
    TheoreticalReturned =>
        /\ Continuous(self) =>
            /\ EvenlySpaced(result.value, 101, ContinuousRange(self))
            /\ RatSub(result.value[2], result.value[1]) =
                    RatDiv(RatSub(ContinuousRange(self)[2], ContinuousRange(self)[1]),
                           Rat(100, 1))
        /\ self.class = "BinomialDistribution" =>
            result.value = [k \in 1..(self.n + 1) |-> k - 1]

C17_Witness ==
    /\ TheoreticalReturned
    /\ self.class = "NormalDistribution" /\ self.num_classes = None
    /\ self.mu = Rat(0, 1) /\ self.sigma = Rat(1, 1)
    /\ Len(result.value) = 101
    /\ result.value[1] = Rat(0 - 3, 1)
    /\ result.value[51] = Rat(0, 1)
    /\ result.value[101] = Rat(3, 1)

\* the midpoint of the class of [classMin, classMax] that contains x, the
\* first class for x below classMin and the last for x at or above classMax
EnclosingMidpoint(obj, x) ==
    LET min_val == ClassRange(obj).min_val
        max_val == ClassRange(obj).max_val
        class_width == RatDiv(RatSub(max_val, min_val), Rat(obj.num_classes[1], 1))
        inside == IF RatLess(x, min_val) THEN min_val ELSE x
        index == RatTrunc(RatDiv(RatSub(inside, min_val), class_width))
        last == IF index >= obj.num_classes[1] THEN obj.num_classes[1] - 1 ELSE index
    IN  RatAdd(min_val, RatMul(RatAdd(Rat(last, 1), Rat(1, 2)), class_width))

\* C18: with num_classes set, NormalDistribution.generate maps every raw
\* value x to the midpoint of the equal-width class of [classMin, classMax]
\* that contains x, clamped into [classMin, classMax], also for x below
\* classMin and x at or above classMax.
C18_ClassMidpoint ==
    (fn = "generate" /\ self.class = "NormalDistribution" /\ self.num_classes # None) =>
        \A i \in 1..Len(loc.result) :
            /\ loc.result[i] = EnclosingMidpoint(self, loc.raw[i])
            /\ ~RatLess(loc.result[i], ClassRange(self).min_val)
            /\ ~RatLess(ClassRange(self).max_val, loc.result[i])

\* the generator a name of PRNGSelector.METHODS stands for
GeneratorNamed(nombre) ==
    IF nombre = "Von Neumann" THEN "mid_square"
    ELSE IF nombre = "Fibonacci" THEN "fibonacci"
    ELSE IF nombre = "Mixed Congruential" THEN "mixed"
    ELSE IF nombre = "Additive Congruential" THEN "additive"
    ELSE "multiplicative"

\* the distribution class a tipo stands for
ClassNamed(tipo) ==
    IF tipo = "tabla" THEN "TableDistribution"
    ELSE IF tipo = "binomial" THEN "BinomialDistribution"
    ELSE IF tipo = "poisson" THEN "PoissonDistribution"
    ELSE IF tipo = "exponencial" THEN "ExponentialDistribution"
    ELSE "NormalDistribution"

KnownTipos == {"tabla", "binomial", "poisson", "exponencial", "normal"}

\* C20: an unrecognized discriminator is reported as an error and never
\* dispatched: create_distribution raises for any tipo other than tabla,
\* binomial, poisson, exponencial, normal, and generarDatosNormalizados
\* raises for any nombre that is not one of the five algorithm names; each
\* recognized value dispatches to exactly the matching distribution class
\* or generator.
C20_Dispatch ==
    /\ fn = "create_distribution" =>
        /\ args.params.tipo \notin KnownTipos =>
            Raised /\ self.class = "none"
        /\ (args.params.tipo \in KnownTipos /\ ~Raised) =>
            self.class = ClassNamed(args.params.tipo)
    /\ caller.fn = "generarDatosNormalizados" =>
        /\ caller.parametrosDeGeneracion.nombre \notin METHODS =>
            /\ caller.pos = "raised"
            /\ fn = "none"
        /\ caller.parametrosDeGeneracion.nombre \in METHODS =>
            fn = GeneratorNamed(caller.parametrosDeGeneracion.nombre)

----------------------------------------------------------------------------
(* Properties of repeated generator calls (under SpecRepeat) *)

\* the generator call of the current frame is the call of the first click
\* again: same generator, same arguments
SameCallAsFirst ==
    /\ caller.fn = "on_generate" /\ caller.clicks > 1
    /\ fn = GeneratorNamed(caller.params.nombre)
    /\ args = [k \in DOMAIN caller.params \ {"nombre"} |-> caller.params[k]]

\* C12: running a generator twice with the same parameters yields the same
\* sequence or the same error, also when a call with other parameters runs
\* in between: the outcome is a function of the arguments alone.
C12_SameOutcome ==
    (SameCallAsFirst /\ pc \in {"done", "error"}) =>
        /\ result = caller.first
        /\ pc = (IF caller.first.kind = "raise" THEN "error" ELSE "done")

C12_Witness ==
    /\ SameCallAsFirst /\ Returned
    /\ caller.clicks = 3
    /\ caller.params = [nombre |-> "Multiplicative Congruential",
                        n |-> 2, x0 |-> 1, a |-> 2, m |-> 3]
    /\ caller.between = <<[nombre |-> "Fibonacci", n |-> 2, x0 |-> 1, x1 |-> 2, m |-> 3]>>
    /\ caller.first = Return(<<2, 1>>)
    /\ result = Return(<<2, 1>>)

----------------------------------------------------------------------------
(* Failure of the mid-square generator (under SpecMidSquare) *)

\* the padded square of term x and of each of the k - 1 terms after it has
\* at least d digits
RECURSIVE EnoughDigits(_, _, _)
EnoughDigits(x, d, k) ==
    IF k = 0 THEN TRUE
    ELSE /\ Len(PaddedStr(x * x, d)) >= d
         /\ EnoughDigits(extract_middle_digits(x * x, d).value, d, k - 1)

\* C21: when extract_middle_digits fails at any iteration, also one after
\* the first, generate_sequence of mid_square.py propagates the error and
\* returns none of the terms computed so far; for a seed that passed
\* validation it completes normally iff the padded square of every term has
\* at least d digits.
C21_NoPartialResult ==
    (fn = "mid_square" /\ pc \in {"done", "error"} /\ SeedDigitsOk(args.x1, args.d)) =>
        /\ Returned <=> EnoughDigits(args.x1, args.d, args.n)
        /\ Raised <=> ~EnoughDigits(args.x1, args.d, args.n)
        /\ Raised =>
            /\ result = Raise("Squared number has fewer digits than required")
            /\ DOMAIN result = {"kind", "exc", "msg"}
            /\ Len(sequence) = iter + 1
            /\ Len(PaddedStr(xn * xn, args.d)) < args.d

C21_Witness ==
    /\ fn = "mid_square" /\ Raised
    /\ args = [n |-> 3, d |-> 3, x1 |-> 100]
    /\ sequence = <<100, 0>>
    /\ iter = 1
    /\ xn = 0

----------------------------------------------------------------------------
(* Properties of the values cursor (under SpecCursor) *)

\* every text of the loaded list is a number
ValoresNumericos ==
    \A i \in 1..Len(valoresArchivo) : PyFloat(valoresArchivo[i]).kind = "return"

\* C22: obtenerSiguienteValorDeArchivo never reads past the end of the
\* loaded list of values: after the k-th call, k >= 1,
\* 1 <= indiceArchivo <= len(valoresArchivo) and the call returned element
\* (k-1) mod len; on an exhausted list the cursor wraps to the first
\* element instead of failing.
C22_CursorWraps ==
    /\ indiceArchivo \in 0..Len(valoresArchivo)
    /\ fn # "none" => Len(valoresArchivo) >= 1
    /\ (fn = "obtenerSiguienteValorDeArchivo" /\ ValoresNumericos) =>
        /\ Returned
        /\ indiceArchivo \in 1..Len(valoresArchivo)
        /\ indiceArchivo = ((iter - 1) % Len(valoresArchivo)) + 1
        /\ result = PyFloat(valoresArchivo[((iter - 1) % Len(valoresArchivo)) + 1])

C22_Witness ==
    /\ fn = "obtenerSiguienteValorDeArchivo" /\ Returned
    /\ valoresArchivo = << <<"0", ".", "5">>, <<"0", ".", "2", "5">>, <<"1">> >>
    /\ iter = 5
    /\ indiceArchivo = 2
    /\ result = Return(<<1, 4>>)

----------------------------------------------------------------------------
(* One label per uniform (under SpecDist) *)

\* C23: for every table the TableDistribution constructor accepts, also one
\* whose probabilities sum to slightly less than 1 within the tolerance, and
\* every list of uniforms in [0,1), generate returns exactly one label per
\* uniform: the output is as long as the input.
C23_OneLabelPerUniform ==
    (/\ fn = "generate" /\ self.class = "TableDistribution"
     /\ \A i \in 1..Len(args.random_numbers) :
         /\ args.random_numbers[i][1] >= 0
         /\ args.random_numbers[i][1] < args.random_numbers[i][2]) =>
        /\ Len(loc.result) = iter
        /\ Returned => Len(result.value) = Len(args.random_numbers)

----------------------------------------------------------------------------
(* The generator-to-Normal pipeline (under SpecMuestra) *)

\* the pairs (u[2i-1], u[2i]) of the uniforms whose first element is 0
ZeroPairs(uniforms) ==
    {i \in 1..(Len(uniforms) \div 2) : uniforms[2 * i - 1][1] = 0}

\* C24: NormalDistribution.generate raises a math domain error and returns
\* no samples whenever the first uniform of some pair is exactly 0, also
\* when the uniforms are the normalized output of a generator run on valid
\* parameters (a raw term equal to 0).
C24_ZeroUniformRaises ==
    (/\ fn = "generate" /\ self.class = "NormalDistribution"
     /\ ZeroPairs(args.random_numbers) # {}) =>
        /\ ~Returned
        /\ \A i \in ZeroPairs(args.random_numbers) : iter < i
        /\ pc \in {"loop", "error"}
        /\ pc = "error" =>
            /\ result = Raise("math domain error")
            /\ iter + 1 \in ZeroPairs(args.random_numbers)

C24_Witness ==
    /\ fn = "generate" /\ Raised
    /\ result = Raise("math domain error")
    /\ caller.fn = "generarMuestraArtificial"
    /\ caller.parametrosDeGeneracion =
           [nombre |-> "Additive Congruential", n |-> 2, x0 |-> 1, c |-> 3, m |-> 4]
    /\ caller.sequence = <<0, 3>>
    /\ args.random_numbers = << <<0, 1>>, <<3, 4>> >>
    /\ self.class = "NormalDistribution"

----------------------------------------------------------------------------
(* Discretized samples and theoretical keys (under SpecDist) *)

\* C25: with class discretization configured, every sample
\* NormalDistribution.generate emits is one of the class midpoints that
\* get_theoretical_probabilities returns as keys.
C25_SamplesAreKeys ==
    (fn = "generate" /\ self.class = "NormalDistribution" /\ self.num_classes # None) =>
        \A i \in 1..Len(loc.result) :
            \E k \in 1..Len(get_theoretical_probabilities(self)) :
                loc.result[i] = get_theoretical_probabilities(self)[k]

----------------------------------------------------------------------------
(* The absorbing term of the multiplicative generator (under Spec) *)

\* every term after a term 0 is 0
ZeroAbsorbs(terms) ==
    \A i \in 1..Len(terms) : \A j \in i..Len(terms) : terms[i] = 0 => terms[j] = 0

\* C26: in the multiplicative congruential generator 0 is absorbing: once a
\* term of the sequence equals 0 every later term equals 0; valid
\* parameters exist (x0=4, a=2, m=8) whose first returned term is already 0.
C26_ZeroAbsorbing ==
    (fn = "multiplicative" /\ pc \in {"loop", "done"}) =>
        /\ ZeroAbsorbs(sequence)
        /\ xn = sequence[Len(sequence)]
        /\ Returned => /\ ZeroAbsorbs(result.value)
                       /\ result.value = SliceFrom(sequence, 1)
        /\ (Returned /\ args.x0 = 4 /\ args.a = 2 /\ args.m = 8 /\ args.n >= 1) =>
            result.value[1] = 0

C26_Witness ==
    /\ fn = "multiplicative" /\ Returned
    /\ args = [n |-> 3, x0 |-> 4, a |-> 2, m |-> 8]
    /\ result.value = <<0, 0, 0>>

====
